---- MODULE Spec2Model ----
(***************************************************************************)
(* dao-action-builder: the type-directed validation / normalization /      *)
(* denormalization engine for Solidity ABI parameter text, and the action  *)
(* assembly built on it.                                                   *)
(*                                                                         *)
(* Text (a JavaScript string) is a sequence of one-character strings.      *)
(* A JavaScript value is a tagged tuple:                                   *)
(*   <<"string", text>>  <<"number", n>>  <<"bigint", n>>                  *)
(*   <<"boolean", b>>    <<"null">>       <<"undefined">>                  *)
(*   <<"array", <<v1, ..., vn>>>>                                          *)
(*   <<"object", << <<key1, v1>>, ..., <<keyn, vn>> >>>>  (insertion order)*)
(* An operation that can throw returns <<"ok", v>> or <<"throw", name>>.   *)
(***************************************************************************)
EXTENDS Integers, Sequences, FiniteSets, TLC

VARIABLES
  pc,    \* "idle": no call made yet; "done": a call has returned
  call,  \* the operation invoked last and its arguments
  ret,   \* what that operation returned (or threw)
  prior, \* the <<call, ret>> pairs of the earlier steps of the same pipeline
  actionBuilder,   \* an ActionBuilder: its abiCache and its loadContractAbi calls
  abiLoader,       \* a component using useAbiLoader: its state, refs and loads
  paramValidation  \* a component using useParameterValidation: its props and state

callVars == <<pc, call, ret, prior>>
objectVars == <<actionBuilder, abiLoader, paramValidation>>
vars == <<pc, call, ret, prior, actionBuilder, abiLoader, paramValidation>>

(***************************************************************************)
(* Bounds of the model.                                                    *)
(***************************************************************************)
MaxBits == 5      \* bit widths 1..MaxBits are enumerated for uintN / intN
MaxLen == 3       \* longest JSON array enumerated as an input
MaxByteLen == 3   \* byte strings of 0..MaxByteLen bytes are enumerated

(***************************************************************************)
(* Characters and text.                                                    *)
(***************************************************************************)
DecDigits == <<"0","1","2","3","4","5","6","7","8","9">>
HexDigitsLower == <<"0","1","2","3","4","5","6","7","8","9","a","b","c","d","e","f">>
UpperLetters == <<"A","B","C","D","E","F","G","H","I","J","K","L","M",
                  "N","O","P","Q","R","S","T","U","V","W","X","Y","Z">>
LowerLetters == <<"a","b","c","d","e","f","g","h","i","j","k","l","m",
                  "n","o","p","q","r","s","t","u","v","w","x","y","z">>
WhiteSpace == {" ", "\t", "\n", "\r"}

Range(s) == {s[i] : i \in 1..Len(s)}
IndexIn(c, s) == CHOOSE i \in 1..Len(s) : s[i] = c

DigitSet == Range(DecDigits)
UpperSet == Range(UpperLetters)
HexLowerSet == Range(HexDigitsLower)
LowerOf == [c \in UpperSet |-> LowerLetters[IndexIn(c, UpperLetters)]]
HexAnySet == HexLowerSet \cup {"A", "B", "C", "D", "E", "F"}
HexValOf ==
  [c \in HexAnySet |->
     IndexIn(IF c \in UpperSet THEN LowerOf[c] ELSE c, HexDigitsLower) - 1]

IsDigit(c) == c \in DigitSet

\* String.prototype.toLowerCase
toLowerChar(c) == IF c \in UpperSet THEN LowerOf[c] ELSE c
toLowerCase(s) == [i \in 1..Len(s) |-> toLowerChar(s[i])]

IsHexLower(c) == c \in HexLowerSet
IsHexAnyCase(c) == c \in HexAnySet
HexVal(c) == HexValOf[c]

\* String.prototype.startsWith
startsWith(s, p) == Len(s) >= Len(p) /\ SubSeq(s, 1, Len(p)) = p
\* String.prototype.slice(n) with 0 <= n
slice(s, n) == IF n >= Len(s) THEN <<>> ELSE SubSeq(s, n + 1, Len(s))

\* String.prototype.trim
RECURSIVE trimStart(_)
trimStart(s) == IF s # <<>> /\ Head(s) \in WhiteSpace THEN trimStart(Tail(s)) ELSE s
RECURSIVE trimEnd(_)
trimEnd(s) ==
  IF s # <<>> /\ s[Len(s)] \in WhiteSpace THEN trimEnd(SubSeq(s, 1, Len(s) - 1)) ELSE s
trim(s) == trimEnd(trimStart(s))

\* The text as one TLA+ string (used inside error messages).
RECURSIVE Str(_)
Str(s) == IF s = <<>> THEN "" ELSE Head(s) \o Str(Tail(s))

\* n copies of the text s.
RECURSIVE Rep(_, _)
Rep(s, n) == IF n <= 0 THEN <<>> ELSE s \o Rep(s, n - 1)

\* Number.prototype.toString / BigInt.prototype.toString for an integer.
RECURSIVE NatText(_)
NatText(n) == IF n < 10 THEN <<DecDigits[n + 1]>> ELSE NatText(n \div 10) \o <<DecDigits[(n % 10) + 1]>>
IntText(n) == IF n < 0 THEN <<"-">> \o NatText(-n) ELSE NatText(n)

RECURSIVE Pow2(_)
Pow2(n) == IF n <= 0 THEN 1 ELSE 2 * Pow2(n - 1)

(***************************************************************************)
(* Throwing operations.                                                    *)
(***************************************************************************)
Ok(v) == <<"ok", v>>
Throw(e) == <<"throw", e>>
IsThrow(r) == r[1] = "throw"

RECURSIVE DigitsValue(_, _, _)
\* The value of the digit text s in the given radix, acc being the value so far.
DigitsValue(s, radix, acc) ==
  IF s = <<>> THEN acc ELSE DigitsValue(Tail(s), radix, acc * radix + HexVal(Head(s)))

AllDigitsOfRadix(s, radix) ==
  s # <<>> /\ \A i \in 1..Len(s) : IsHexAnyCase(s[i]) /\ HexVal(s[i]) < radix

\* BigInt(text): StringToBigInt. Surrounding white space is ignored, the empty
\* text is 0n, a decimal literal may carry a sign, 0x / 0o / 0b literals may
\* not; anything else is a SyntaxError.
BigInt(s) ==
  LET Prefixed(digits, radix) ==
        IF AllDigitsOfRadix(digits, radix) THEN Ok(DigitsValue(digits, radix, 0))
        ELSE Throw("SyntaxError")
      Decimal(negative, digits) ==
        IF ~AllDigitsOfRadix(digits, 10) THEN Throw("SyntaxError")
        ELSE Ok(IF negative THEN -DigitsValue(digits, 10, 0) ELSE DigitsValue(digits, 10, 0))
      Trimmed(t) ==
        IF t = <<>> THEN Ok(0)
        ELSE IF Len(t) >= 3 /\ t[1] = "0" /\ t[2] \in {"x", "X", "o", "O", "b", "B"}
          THEN Prefixed(Tail(Tail(t)),
                        CASE t[2] \in {"x", "X"} -> 16 [] t[2] \in {"o", "O"} -> 8 [] OTHER -> 2)
        ELSE IF t[1] \in {"+", "-"} THEN Decimal(t[1] = "-", Tail(t))
        ELSE Decimal(FALSE, t)
  IN  Trimmed(trim(s))

(***************************************************************************)
(* ParameterValidationResult                                               *)
(* An absent error is the empty string (no message of the code is empty),  *)
(* an absent normalizedValue is <<"undefined">>.                           *)
(***************************************************************************)
Undefined == <<"undefined">>
Valid(v) == [isValid |-> TRUE, error |-> "", normalizedValue |-> v]
Invalid(msg) == [isValid |-> FALSE, error |-> msg, normalizedValue |-> Undefined]

(***************************************************************************)
(* Scalar validators (validation/validators.ts)                            *)
(***************************************************************************)
\* ADDRESS_REGEX = /^0x[a-f0-9]{40}$/
ADDRESS_REGEX_test(s) ==
  /\ Len(s) = 42
  /\ s[1] = "0"
  /\ s[2] = "x"
  /\ \A i \in 3..42 : IsHexLower(s[i])

\* HEX_STRING_REGEX = /^0x[0-9a-fA-F]*$/
HEX_STRING_REGEX_test(s) ==
  /\ Len(s) >= 2
  /\ s[1] = "0"
  /\ s[2] = "x"
  /\ \A i \in 3..Len(s) : IsHexAnyCase(s[i])

\* validateAddress without the case folding of its result: the variant that
\* C7 must tell apart from the code.
validateAddress_unfolded(value) ==
  IF value = <<>> THEN Invalid("Address is required")
  ELSE IF ~ADDRESS_REGEX_test(toLowerCase(value))
    THEN Invalid("Invalid Ethereum address. Must be 40 hex characters starting with 0x")
  ELSE Valid(<<"string", value>>)

validateAddress(value) ==
  IF value = <<>> THEN Invalid("Address is required")
  ELSE LET Tested(lowerValue) ==
             IF ~ADDRESS_REGEX_test(lowerValue)
               THEN Invalid("Invalid Ethereum address. Must be 40 hex characters starting with 0x")
               ELSE Valid(<<"string", lowerValue>>)
       IN  Tested(toLowerCase(value))

\* BigInt(2) ** BigInt(e): a RangeError for a negative exponent. The integers
\* of the model stay below 2^MaxModelPow: for a larger exponent the power is
\* kept symbolic and compared by BigLeq / BigLess below.
MaxModelPow == 30
PowerOfTwo(e) ==
  IF e < 0 THEN Throw("RangeError")
  ELSE IF e > MaxModelPow THEN Ok(<<"2^", e>>)
  ELSE Ok(<<"int", Pow2(e)>>)

\* num > 2^e - 1 and num < -(2^e), for num an integer of the model and 2^e as
\* PowerOfTwo returns it.
ExceedsPowMinusOne(num, p) == IF p[1] = "2^" THEN FALSE ELSE num > p[2] - 1
BelowMinusPow(num, p) == IF p[1] = "2^" THEN FALSE ELSE num < -(p[2])

\* validateUint without the comparison of value.trim() to value: the variant
\* that C11 must tell apart from the code.
validateUint_trimming(value, bits) ==
  IF value = <<>> THEN Invalid("Invalid number format (no spaces allowed)")
  ELSE LET Checked(num, pow) ==
             IF IsThrow(num) THEN Invalid("Invalid number format")
             ELSE IF num[2] < 0 THEN Invalid("Must be a non-negative number")
             ELSE IF IsThrow(pow) THEN Invalid("Invalid number format")
             ELSE IF ExceedsPowMinusOne(num[2], pow[2])
               THEN Invalid("Value exceeds uint" \o ToString(bits) \o " max")
             ELSE Valid(<<"bigint", num[2]>>)
       IN  Checked(BigInt(value), PowerOfTwo(bits))

\* validateUint with the ceiling 2^bits instead of 2^bits - 1: the variant
\* that C5 must tell apart from the code.
validateUint_ceilingPlusOne(value, bits) ==
  IF value = <<>> \/ trim(value) # value
    THEN Invalid("Invalid number format (no spaces allowed)")
  ELSE LET Checked(num, pow) ==
             IF IsThrow(num) THEN Invalid("Invalid number format")
             ELSE IF num[2] < 0 THEN Invalid("Must be a non-negative number")
             ELSE IF IsThrow(pow) THEN Invalid("Invalid number format")
             ELSE IF ExceedsPowMinusOne(num[2] - 1, pow[2])
               THEN Invalid("Value exceeds uint" \o ToString(bits) \o " max")
             ELSE Valid(<<"bigint", num[2]>>)
       IN  Checked(BigInt(value), PowerOfTwo(bits))

validateUint(value, bits) ==
  IF value = <<>> \/ trim(value) # value
    THEN Invalid("Invalid number format (no spaces allowed)")
  ELSE LET Checked(num, pow) ==
             IF IsThrow(num) THEN Invalid("Invalid number format")
             ELSE IF num[2] < 0 THEN Invalid("Must be a non-negative number")
             ELSE IF IsThrow(pow) THEN Invalid("Invalid number format")
             ELSE IF ExceedsPowMinusOne(num[2], pow[2])
               THEN Invalid("Value exceeds uint" \o ToString(bits) \o " max")
             ELSE Valid(<<"bigint", num[2]>>)
       IN  Checked(BigInt(value), PowerOfTwo(bits))

\* validateInt with the bounds of 2^bits instead of 2^(bits-1): the variant
\* that C6 must tell apart from the code.
validateInt_fullWidth(value, bits) ==
  IF value = <<>> \/ trim(value) # value
    THEN Invalid("Invalid number format (no spaces allowed)")
  ELSE LET Checked(num, pow) ==
             IF IsThrow(num) THEN Invalid("Invalid number format")
             ELSE IF IsThrow(pow) THEN Invalid("Invalid number format")
             ELSE IF ExceedsPowMinusOne(num[2], pow[2]) \/ BelowMinusPow(num[2], pow[2])
               THEN Invalid("Value out of range for int" \o ToString(bits))
             ELSE Valid(<<"bigint", num[2]>>)
       IN  Checked(BigInt(value), PowerOfTwo(bits))

validateInt(value, bits) ==
  IF value = <<>> \/ trim(value) # value
    THEN Invalid("Invalid number format (no spaces allowed)")
  ELSE LET Checked(num, pow) ==
             IF IsThrow(num) THEN Invalid("Invalid number format")
             ELSE IF IsThrow(pow) THEN Invalid("Invalid number format")
             ELSE IF ExceedsPowMinusOne(num[2], pow[2]) \/ BelowMinusPow(num[2], pow[2])
               THEN Invalid("Value out of range for int" \o ToString(bits))
             ELSE Valid(<<"bigint", num[2]>>)
       IN  Checked(BigInt(value), PowerOfTwo(bits - 1))

validateBool(value) ==
  LET Matched(normalized) ==
        IF normalized = <<"t","r","u","e">> THEN Valid(<<"boolean", TRUE>>)
        ELSE IF normalized = <<"f","a","l","s","e">> THEN Valid(<<"boolean", FALSE>>)
        ELSE Invalid("Must be \"true\" or \"false\"")
  IN  Matched(trim(toLowerCase(value)))

\* validateBytes without the comparison of the byte length to fixedLength:
\* the variant that C9 must tell apart from the code.
validateBytes_anyLength(value, fixedLength) ==
  IF value = <<>> THEN Invalid("Bytes value is required")
  ELSE IF ~startsWith(value, <<"0","x">>) THEN Invalid("Must start with 0x")
  ELSE IF ~HEX_STRING_REGEX_test(value) THEN Invalid("Invalid hex string")
  ELSE IF fixedLength # Undefined /\ Len(value) - 2 > 2 * 32
    THEN Invalid("Fixed bytes cannot exceed 32")
  ELSE Valid(<<"string", value>>)

\* fixedLength is <<"undefined">>, <<"number", n>> or <<"NaN">> (parseInt of a
\* non-numeric suffix). byteLength = (value.length - 2) / 2 may be a half: the
\* comparisons are made on twice the values.
validateBytes(value, fixedLength) ==
  IF value = <<>> THEN Invalid("Bytes value is required")
  ELSE IF ~startsWith(value, <<"0","x">>) THEN Invalid("Must start with 0x")
  ELSE IF ~HEX_STRING_REGEX_test(value) THEN Invalid("Invalid hex string")
  ELSE LET twiceByteLength == Len(value) - 2 IN
       IF fixedLength # Undefined
          /\ (fixedLength[1] = "NaN" \/ twiceByteLength # 2 * fixedLength[2])
         THEN Invalid("Must be exactly "
                      \o (IF fixedLength[1] = "NaN" THEN "NaN" ELSE ToString(fixedLength[2]))
                      \o " bytes")
       ELSE IF fixedLength # Undefined /\ twiceByteLength > 2 * 32
         THEN Invalid("Fixed bytes cannot exceed 32")
       ELSE Valid(<<"string", value>>)

validateString(value) == Valid(<<"string", value>>)

(***************************************************************************)
(* JavaScript values, String(v), JSON.stringify and JSON.parse.            *)
(* Number literals are integers: a fraction or an exponent is outside the  *)
(* repertoire of the texts the model enumerates. String escapes are those  *)
(* JSON.stringify emits for the characters of the model.                   *)
(***************************************************************************)
StrV(s) == <<"string", s>>
NumV(n) == <<"number", n>>
BoolV(b) == <<"boolean", b>>
BigV(n) == <<"bigint", n>>
NullV == <<"null">>
ArrV(elems) == <<"array", elems>>
ObjV(members) == <<"object", members>>

T_true == <<"t","r","u","e">>
T_false == <<"f","a","l","s","e">>
T_null == <<"n","u","l","l">>

typeof(v) ==
  IF v[1] \in {"null", "array", "object"} THEN "object" ELSE v[1]
IsArray(v) == v[1] = "array"

RECURSIVE Join(_, _)
\* Array.prototype.join over texts.
Join(texts, sep) ==
  IF texts = <<>> THEN <<>>
  ELSE IF Len(texts) = 1 THEN texts[1]
  ELSE texts[1] \o sep \o Join(Tail(texts), sep)

RECURSIVE String(_)
\* String(v)
String(v) ==
  CASE v[1] = "string" -> v[2]
    [] v[1] = "number" -> IntText(v[2])
    [] v[1] = "bigint" -> IntText(v[2])
    [] v[1] = "boolean" -> IF v[2] THEN T_true ELSE T_false
    [] v[1] = "null" -> T_null
    [] v[1] = "undefined" -> <<"u","n","d","e","f","i","n","e","d">>
    [] v[1] = "array" ->
         Join([i \in 1..Len(v[2]) |->
                 IF v[2][i][1] \in {"null", "undefined"} THEN <<>> ELSE String(v[2][i])],
              <<",">>)
    [] v[1] = "object" ->
         <<"[","o","b","j","e","c","t"," ","O","b","j","e","c","t","]">>

\* One character inside a JSON string literal, as JSON.stringify writes it.
QuoteChar(c) ==
  CASE c = "\"" -> <<"\\", "\"">>
    [] c = "\\" -> <<"\\", "\\">>
    [] c = "\n" -> <<"\\", "n">>
    [] c = "\t" -> <<"\\", "t">>
    [] c = "\r" -> <<"\\", "r">>
    [] OTHER -> <<c>>

RECURSIVE QuoteBody(_)
\* The characters of s, each as QuoteChar writes it (by halves).
QuoteBody(s) ==
  IF s = <<>> THEN <<>>
  ELSE IF Len(s) = 1 THEN QuoteChar(s[1])
  ELSE LET h == Len(s) \div 2 IN
       QuoteBody(SubSeq(s, 1, h)) \o QuoteBody(SubSeq(s, h + 1, Len(s)))
Quote(s) == <<"\"">> \o QuoteBody(s) \o <<"\"">>

RECURSIVE ContainsBigInt(_)
ContainsBigInt(v) ==
  CASE v[1] = "bigint" -> TRUE
    [] v[1] = "array" -> \E i \in 1..Len(v[2]) : ContainsBigInt(v[2][i])
    [] v[1] = "object" -> \E i \in 1..Len(v[2]) : ContainsBigInt(v[2][i][2])
    [] OTHER -> FALSE

RECURSIVE Serialize(_)
\* SerializeJSONProperty for a value holding no bigint and no undefined at
\* the top: an undefined array element is written null, an undefined member
\* is left out.
Serialize(v) ==
  CASE v[1] = "string" -> Quote(v[2])
    [] v[1] = "number" -> IntText(v[2])
    [] v[1] = "boolean" -> String(v)
    [] v[1] = "null" -> String(v)
    [] v[1] = "undefined" -> T_null
    [] v[1] = "array" ->
         <<"[">> \o Join([i \in 1..Len(v[2]) |-> Serialize(v[2][i])], <<",">>) \o <<"]">>
    [] v[1] = "object" ->
         LET Members(kept) ==
               Join([i \in 1..Len(kept) |->
                       Quote(kept[i][1]) \o <<":">> \o Serialize(kept[i][2])], <<",">>)
         IN  <<"{">> \o Members(SelectSeq(v[2], LAMBDA m : m[2] # Undefined)) \o <<"}">>

\* JSON.stringify(v): Ok(<<"string", text>>), Ok(<<"undefined">>) for undefined,
\* a TypeError when a bigint is reached.
JSONstringify(v) ==
  IF ContainsBigInt(v) THEN Throw("TypeError")
  ELSE IF v = Undefined THEN Ok(Undefined)
  ELSE Ok(StrV(Serialize(v)))

\* obj[key] = val: a new key is appended, an existing key keeps its place.
ObjSet(members, key, val) ==
  IF \E i \in 1..Len(members) : members[i][1] = key
    THEN [i \in 1..Len(members) |->
            IF members[i][1] = key THEN <<key, val>> ELSE members[i]]
    ELSE Append(members, <<key, val>>)

\* obj[key]
ObjGet(members, key) ==
  IF \E i \in 1..Len(members) : members[i][1] = key
    THEN members[CHOOSE i \in 1..Len(members) : members[i][1] = key][2]
    ELSE Undefined

RECURSIVE SkipWs(_, _)
SkipWs(s, i) == IF i <= Len(s) /\ s[i] \in WhiteSpace THEN SkipWs(s, i + 1) ELSE i

ParseErr == <<"err">>
Parsed(v, next) == <<"val", v, next>>

StringSpecials == {"\"", "\\", "\n", "\t", "\r"}

RECURSIVE ParseStringBody(_, _, _)
\* The characters after an opening quote, up to the closing quote: the run of
\* plain characters up to the next quote, backslash or control character is
\* taken in one step.
ParseStringBody(s, i, acc) ==
  LET Unescaped(c) ==
        CASE c \in {"\"", "\\", "/"} -> c
          [] c = "n" -> "\n"
          [] c = "t" -> "\t"
          [] c = "r" -> "\r"
          [] OTHER -> ""
      StopAt(j, run) ==
        IF s[j] = "\"" THEN Parsed(run, j + 1)
        ELSE IF s[j] # "\\" THEN ParseErr
        ELSE IF j + 1 > Len(s) THEN ParseErr
        ELSE IF Unescaped(s[j + 1]) = "" THEN ParseErr
        ELSE ParseStringBody(s, j + 2, Append(run, Unescaped(s[j + 1])))
      First(stops) == CHOOSE k \in stops : \A m \in stops : k <= m
      Scan(stops) ==
        IF stops = {} THEN ParseErr
        ELSE StopAt(First(stops), acc \o SubSeq(s, i, First(stops) - 1))
  IN  Scan({k \in i..Len(s) : s[k] \in StringSpecials})

RECURSIVE DigitRunEnd(_, _)
\* The index after the run of decimal digits starting at i.
DigitRunEnd(s, i) == IF i <= Len(s) /\ IsDigit(s[i]) THEN DigitRunEnd(s, i + 1) ELSE i

\* -? (0 | [1-9][0-9]*)
ParseNumber(s, i) ==
  LET Signed(neg, n) == IF neg THEN -n ELSE n
      Run(neg, d, e) ==
        IF e = d THEN ParseErr
        ELSE IF s[d] = "0" /\ e > d + 1 THEN ParseErr
        ELSE Parsed(NumV(Signed(neg, DigitsValue(SubSeq(s, d, e - 1), 10, 0))), e)
      From(neg, d) == Run(neg, d, DigitRunEnd(s, d))
  IN  From(s[i] = "-", IF s[i] = "-" THEN i + 1 ELSE i)

Literal(s, i, word, v) ==
  IF i + Len(word) - 1 <= Len(s) /\ SubSeq(s, i, i + Len(word) - 1) = word
    THEN Parsed(v, i + Len(word)) ELSE ParseErr

RECURSIVE ParseValue(_, _)
RECURSIVE ParseElements(_, _, _)
RECURSIVE ParseMembers(_, _, _)

ParseValue(s, i0) ==
  LET ArrayFrom(j) ==
        IF j <= Len(s) /\ s[j] = "]" THEN Parsed(ArrV(<<>>), j + 1)
        ELSE ParseElements(s, j, <<>>)
      ObjectFrom(j) ==
        IF j <= Len(s) /\ s[j] = "}" THEN Parsed(ObjV(<<>>), j + 1)
        ELSE ParseMembers(s, j, <<>>)
      StringOf(r) == IF r = ParseErr THEN ParseErr ELSE Parsed(StrV(r[2]), r[3])
      Word(i) ==
        CASE s[i] = "t" -> <<T_true, BoolV(TRUE)>>
          [] s[i] = "f" -> <<T_false, BoolV(FALSE)>>
          [] OTHER -> <<T_null, NullV>>
      At(i) ==
        IF i > Len(s) THEN ParseErr
        ELSE CASE s[i] = "[" -> ArrayFrom(SkipWs(s, i + 1))
               [] s[i] = "{" -> ObjectFrom(SkipWs(s, i + 1))
               [] s[i] = "\"" -> StringOf(ParseStringBody(s, i + 1, <<>>))
               [] s[i] = "-" \/ IsDigit(s[i]) -> ParseNumber(s, i)
               [] s[i] \in {"t", "f", "n"} -> Literal(s, i, Word(i)[1], Word(i)[2])
               [] OTHER -> ParseErr
  IN  At(SkipWs(s, i0))

ParseElements(s, i, acc) ==
  LET After(k, elems) ==
        IF k > Len(s) THEN ParseErr
        ELSE IF s[k] = "," THEN ParseElements(s, k + 1, elems)
        ELSE IF s[k] = "]" THEN Parsed(ArrV(elems), k + 1)
        ELSE ParseErr
      Element(r) ==
        IF r = ParseErr THEN ParseErr ELSE After(SkipWs(s, r[3]), Append(acc, r[2]))
  IN  Element(ParseValue(s, i))

ParseMembers(s, i0, acc) ==
  LET After(k, next) ==
        IF k > Len(s) THEN ParseErr
        ELSE IF s[k] = "," THEN ParseMembers(s, k + 1, next)
        ELSE IF s[k] = "}" THEN Parsed(ObjV(next), k + 1)
        ELSE ParseErr
      Member(key, r) ==
        IF r = ParseErr THEN ParseErr
        ELSE After(SkipWs(s, r[3]), ObjSet(acc, key[2], r[2]))
      Colon(key, c) ==
        IF c > Len(s) \/ s[c] # ":" THEN ParseErr ELSE Member(key, ParseValue(s, c + 1))
      Key(key) == IF key = ParseErr THEN ParseErr ELSE Colon(key, SkipWs(s, key[3]))
      At(i) ==
        IF i > Len(s) \/ s[i] # "\"" THEN ParseErr
        ELSE Key(ParseStringBody(s, i + 1, <<>>))
  IN  At(SkipWs(s, i0))

\* JSON.parse(text)
JSONparse(s) ==
  LET Whole(r) ==
        IF r = ParseErr THEN Throw("SyntaxError")
        ELSE IF SkipWs(s, r[3]) <= Len(s) THEN Throw("SyntaxError")
        ELSE Ok(r[2])
  IN  Whole(ParseValue(s, 1))

(***************************************************************************)
(* parseType (validation/validators.ts)                                    *)
(* A dimension is <<"number", n>> or <<"null">> (dynamic).                 *)
(***************************************************************************)
LineTerminators == {"\n", "\r"}
T_tuple == <<"t","u","p","l","e">>

\* ARRAY_TYPE_REGEX = /^(.+?)(\[.*\])$/ : Ok(<<group 1, group 2>>) or no match.
\* The lazy group 1 ends before the first "[" that is not the first character.
ARRAY_TYPE_REGEX_match(type) ==
  LET SplitAt(k) == Ok(<<SubSeq(type, 1, k - 1), SubSeq(type, k, Len(type))>>)
      Match(n, opens) ==
        IF /\ n >= 3
           /\ type[n] = "]"
           /\ opens # {}
           /\ \A i \in 1..n : type[i] \notin LineTerminators
          THEN SplitAt(CHOOSE k \in opens : \A j \in opens : k <= j)
          ELSE <<"nomatch">>
  IN  Match(Len(type), {k \in 2..(Len(type) - 1) : type[k] = "["})

RECURSIVE DimensionMatches(_, _)
\* dimensionStr.match(ARRAY_DIMENSION_REGEX = /\[(\d*)\]/g): the digit texts of
\* the successive non-overlapping matches, from index i on.
DimensionMatches(s, i) ==
  IF i > Len(s) THEN <<>>
  ELSE IF s[i] = "[" THEN
    LET Closing(e) ==
          IF e <= Len(s) /\ s[e] = "]"
            THEN <<SubSeq(s, i + 1, e - 1)>> \o DimensionMatches(s, e + 1)
            ELSE DimensionMatches(s, i + 1)
    IN  Closing(DigitRunEnd(s, i + 1))
  ELSE DimensionMatches(s, i + 1)

\* FIXED_DIMENSION_REGEX = /\[(\d+)\]/ on one match, then parseInt(digits, 10).
Dimension(digits) == IF digits = <<>> THEN NullV ELSE NumV(DigitsValue(digits, 10, 0))

parseType(type) ==
  LET Dimensions(dims) == [i \in 1..Len(dims) |-> Dimension(dims[i])]
      Built(tupleFirst, arrayMatch) ==
        IF arrayMatch[1] = "ok"
          THEN [baseType |-> arrayMatch[2][1],
                isArray |-> TRUE,
                arrayDimensions |-> Dimensions(DimensionMatches(arrayMatch[2][2], 1)),
                isTuple |-> tupleFirst \/ arrayMatch[2][1] = T_tuple]
          ELSE [baseType |-> IF tupleFirst THEN T_tuple ELSE type,
                isArray |-> FALSE,
                arrayDimensions |-> <<>>,
                isTuple |-> tupleFirst]
  IN  Built(type = T_tuple \/ startsWith(type, T_tuple \o <<"[">>),
              ARRAY_TYPE_REGEX_match(type))

\* `${d ?? ''}` wrapped in brackets, joined
RECURSIVE DimensionsText(_)
DimensionsText(dims) ==
  IF dims = <<>> THEN <<>>
  ELSE <<"[">> \o (IF Head(dims) = NullV THEN <<>> ELSE IntText(Head(dims)[2])) \o <<"]">>
       \o DimensionsText(Tail(dims))

\* The element type synthesized from all dimensions but the last one.
innerTypeOf_lastDropped(parsed) ==
  IF Len(parsed.arrayDimensions) > 1
    THEN parsed.baseType
           \o DimensionsText(SubSeq(parsed.arrayDimensions, 1, Len(parsed.arrayDimensions) - 1))
    ELSE parsed.baseType

\* The element type the three recursions synthesize for an array type.
innerTypeOf(parsed) ==
  IF Len(parsed.arrayDimensions) > 1
    THEN parsed.baseType \o DimensionsText(Tail(parsed.arrayDimensions))
    ELSE parsed.baseType

\* parseInt(text) without a radix: NumV(n) or <<"NaN">>. Leading white space
\* and one sign are skipped, a 0x prefix selects radix 16, the longest digit
\* prefix is read.
RECURSIVE RadixRunEnd(_, _, _)
RadixRunEnd(s, i, radix) ==
  IF i <= Len(s) /\ IsHexAnyCase(s[i]) /\ HexVal(s[i]) < radix
    THEN RadixRunEnd(s, i + 1, radix) ELSE i

parseInt(text) ==
  LET Signed(neg, n) == IF neg THEN -n ELSE n
      Run(neg, body, radix, e) ==
        IF e = 1 THEN <<"NaN">>
        ELSE NumV(Signed(neg, DigitsValue(SubSeq(body, 1, e - 1), radix, 0)))
      Digits(neg, body, radix) == Run(neg, body, radix, RadixRunEnd(body, 1, radix))
      Unsigned(neg, u) ==
        IF Len(u) >= 2 /\ u[1] = "0" /\ u[2] \in {"x", "X"}
          THEN Digits(neg, Tail(Tail(u)), 16)
          ELSE Digits(neg, u, 10)
      Trimmed(t) ==
        IF t # <<>> /\ t[1] \in {"+", "-"} THEN Unsigned(t[1] = "-", Tail(t))
        ELSE Unsigned(FALSE, t)
  IN  Trimmed(trimStart(text))

\* parseInt(text) || 256
DefaultBits == 256
BitsOr256(text) ==
  LET Or256(n) == IF n[1] = "NaN" \/ n[2] = 0 THEN DefaultBits ELSE n[2]
  IN  Or256(parseInt(text))

(***************************************************************************)
(* Composite validators and the dispatcher (validation/validators.ts)      *)
(* components is <<"undefined">> or <<"list", <<component, ...>>>>, a      *)
(* component being [name, type, components].                               *)
(* Each returns Ok(result) or Throw(e).                                    *)
(***************************************************************************)
NoComponents == <<"undefined">>
Components(list) == <<"list", list>>
Param(name, type, components) == [name |-> name, type |-> type, components |-> components]

T_address == <<"a","d","d","r","e","s","s">>
T_uint == <<"u","i","n","t">>
T_int == <<"i","n","t">>
T_bool == <<"b","o","o","l">>
T_bytes == <<"b","y","t","e","s">>
T_string == <<"s","t","r","i","n","g">>

\* typeof x === 'object' ? JSON.stringify(x) : String(x)
TextOfMember(x) ==
  IF typeof(x) = "object" THEN JSONstringify(x) ELSE Ok(StrV(String(x)))

RECURSIVE validateParameterType(_, _, _)
RECURSIVE validateElements(_, _, _, _, _)
RECURSIVE validateArrayTry(_, _, _, _)
RECURSIVE validateArray(_, _, _, _)
RECURSIVE validateComponents(_, _, _, _)
RECURSIVE validateTupleTry(_, _)
RECURSIVE validateTuple(_, _)

\* The element loop of validateArray going on after a failing element, so
\* that the last failure is the one reported: the variant that C12 must tell
\* apart from the code.
validateElements_lastFailure(parsed, i, elementType, components, validatedElements) ==
  LET Later(elementResult, rest) ==
        IF IsThrow(rest) \/ ~rest[2].isValid THEN rest
        ELSE IF ~elementResult[2].isValid
          THEN Ok(Invalid("Invalid element at index " \o ToString(i - 1) \o ": "
                          \o elementResult[2].error))
        ELSE rest
      Checked(elementResult) ==
        IF IsThrow(elementResult) THEN elementResult
        ELSE Later(elementResult,
                   validateElements(parsed, i + 1, elementType, components,
                     Append(validatedElements, elementResult[2].normalizedValue)))
      Element(elementValue) ==
        IF IsThrow(elementValue) THEN elementValue
        ELSE Checked(validateParameterType(elementValue[2], elementType, components))
  IN  IF i > Len(parsed) THEN Ok(Valid(ArrV(validatedElements)))
      ELSE Element(TextOfMember(parsed[i]))

\* for (let i = 0; i < parsed.length; i++) { ... } of validateArray; i counts
\* from 1 here, the message carries the zero-based index.
validateElements(parsed, i, elementType, components, validatedElements) ==
  LET Checked(elementResult) ==
        IF IsThrow(elementResult) THEN elementResult
        ELSE IF ~elementResult[2].isValid
          THEN Ok(Invalid("Invalid element at index " \o ToString(i - 1) \o ": "
                          \o elementResult[2].error))
        ELSE validateElements(parsed, i + 1, elementType, components,
                              Append(validatedElements, elementResult[2].normalizedValue))
      Element(elementValue) ==
        IF IsThrow(elementValue) THEN elementValue
        ELSE Checked(validateParameterType(elementValue[2], elementType, components))
  IN  IF i > Len(parsed) THEN Ok(Valid(ArrV(validatedElements)))
      ELSE Element(TextOfMember(parsed[i]))

\* The body of validateArray's try block. expectedLength is <<"undefined">> or
\* <<"number", n>>.
validateArrayTry(value, elementType, components, expectedLength) ==
  LET Array(parsed) ==
        IF IsThrow(parsed) THEN parsed
        ELSE IF ~IsArray(parsed[2]) THEN Ok(Invalid("Must be a valid JSON array"))
        ELSE IF expectedLength # Undefined /\ Len(parsed[2][2]) # expectedLength[2]
          THEN Ok(Invalid("Array must have exactly " \o ToString(expectedLength[2])
                          \o " elements"))
        ELSE validateElements(parsed[2][2], 1, elementType, components, <<>>)
  IN  IF value[1] = "string" THEN Array(JSONparse(value[2]))
      ELSE IF ~IsArray(value) THEN Ok(Invalid("Array must be a JSON array string"))
      ELSE Array(Ok(value))

\* validateArray without its catch clause: the variant that C4 must tell
\* apart from the code.
validateArray_uncaught(value, elementType, components, expectedLength) ==
  validateArrayTry(value, elementType, components, expectedLength)

validateArray(value, elementType, components, expectedLength) ==
  LET Caught(r) == IF IsThrow(r) THEN Ok(Invalid("Invalid JSON array format")) ELSE r
  IN  Caught(validateArrayTry(value, elementType, components, expectedLength))

\* The component loop of validateTuple looking for a missing field among all
\* the components before it validates any: the variant that C14 must tell
\* apart from the code.
validateComponents_presenceFirst(parsed, components, i, validatedTuple) ==
  LET missing == {k \in 1..Len(components) : ObjGet(parsed, components[k].name) = Undefined}
      Checked(component, result) ==
        IF IsThrow(result) THEN result
        ELSE IF ~result[2].isValid
          THEN Ok(Invalid("Invalid field \"" \o Str(component.name) \o "\": "
                          \o result[2].error))
        ELSE validateComponents(parsed, components, i + 1,
               ObjSet(validatedTuple, component.name, result[2].normalizedValue))
      Text(component, valueStr) ==
        IF IsThrow(valueStr) THEN valueStr
        ELSE Checked(component, validateParameterType(valueStr[2], component.type,
                                                      component.components))
  IN  IF missing # {}
        THEN Ok(Invalid("Missing required field: "
               \o Str(components[CHOOSE k \in missing : \A j \in missing : k <= j].name)))
      ELSE IF i > Len(components) THEN Ok(Valid(ObjV(validatedTuple)))
      ELSE Text(components[i], TextOfMember(ObjGet(parsed, components[i].name)))

\* The component loop of validateTuple writing the validated fields over a
\* copy of the parsed object instead of an empty one: the variant that C15
\* must tell apart from the code.
validateComponents_overParsed(parsed, components, i, validatedTuple) ==
  LET Checked(component, result, tuple) ==
        IF IsThrow(result) THEN result
        ELSE IF ~result[2].isValid
          THEN Ok(Invalid("Invalid field \"" \o Str(component.name) \o "\": "
                          \o result[2].error))
        ELSE validateComponents(parsed, components, i + 1,
               ObjSet(tuple, component.name, result[2].normalizedValue))
      Text(component, valueStr, tuple) ==
        IF IsThrow(valueStr) THEN valueStr
        ELSE Checked(component,
                     validateParameterType(valueStr[2], component.type, component.components),
                     tuple)
      Field(component, componentValue, tuple) ==
        IF componentValue = Undefined
          THEN Ok(Invalid("Missing required field: " \o Str(component.name)))
        ELSE Text(component, TextOfMember(componentValue), tuple)
  IN  IF i > Len(components) THEN Ok(Valid(ObjV(validatedTuple)))
      ELSE Field(components[i], ObjGet(parsed, components[i].name),
                 IF i = 1 THEN parsed ELSE validatedTuple)

\* for (const component of components) { ... } of validateTuple
validateComponents(parsed, components, i, validatedTuple) ==
  LET Checked(component, result) ==
        IF IsThrow(result) THEN result
        ELSE IF ~result[2].isValid
          THEN Ok(Invalid("Invalid field \"" \o Str(component.name) \o "\": "
                          \o result[2].error))
        ELSE validateComponents(parsed, components, i + 1,
               ObjSet(validatedTuple, component.name, result[2].normalizedValue))
      Text(component, valueStr) ==
        IF IsThrow(valueStr) THEN valueStr
        ELSE Checked(component, validateParameterType(valueStr[2], component.type,
                                                      component.components))
      Field(component, componentValue) ==
        IF componentValue = Undefined
          THEN Ok(Invalid("Missing required field: " \o Str(component.name)))
        ELSE Text(component, TextOfMember(componentValue))
  IN  IF i > Len(components) THEN Ok(Valid(ObjV(validatedTuple)))
      ELSE Field(components[i], ObjGet(parsed, components[i].name))

\* The body of validateTuple's try block; components is the list itself.
validateTupleTry(value, components) ==
  LET Object(parsed) ==
        IF IsThrow(parsed) THEN parsed
        ELSE IF parsed[2][1] # "object" THEN Ok(Invalid("Must be a valid JSON object"))
        ELSE validateComponents(parsed[2][2], components, 1, <<>>)
  IN  IF value[1] = "string" THEN Object(JSONparse(value[2]))
      ELSE IF typeof(value) # "object" \/ value = NullV
        THEN Ok(Invalid("Tuple must be a JSON object string"))
      ELSE Object(Ok(value))

validateTuple(value, components) ==
  LET Caught(r) == IF IsThrow(r) THEN Ok(Invalid("Invalid JSON object format")) ELSE r
  IN  Caught(validateTupleTry(value, components))

\* parseInt(baseType.slice(5)) handed to validateBytes as fixedLength
FixedLengthOf(baseType) == parseInt(slice(baseType, 5))

\* validateParameterType asking only for a component list, not for one that
\* has components: the variant that C16 must tell apart from the code.
validateParameterType_emptySchema(value, type, components) ==
  LET Dispatch(parsed) ==
        IF parsed.isArray THEN
          validateArray(value, innerTypeOf(parsed), components,
                        IF parsed.arrayDimensions # <<>> /\ parsed.arrayDimensions[1] # NullV
                          THEN parsed.arrayDimensions[1] ELSE Undefined)
        ELSE IF parsed.isTuple THEN
          IF components = NoComponents
            THEN Ok(Invalid("Tuple components are required"))
            ELSE validateTuple(value, components[2])
        ELSE IF parsed.baseType = T_address THEN Ok(validateAddress(value[2]))
        ELSE IF startsWith(parsed.baseType, T_uint)
          THEN Ok(validateUint(value[2], BitsOr256(slice(parsed.baseType, 4))))
        ELSE IF startsWith(parsed.baseType, T_int)
          THEN Ok(validateInt(value[2], BitsOr256(slice(parsed.baseType, 3))))
        ELSE IF parsed.baseType = T_bool THEN Ok(validateBool(value[2]))
        ELSE IF parsed.baseType = T_bytes THEN Ok(validateBytes(value[2], Undefined))
        ELSE IF startsWith(parsed.baseType, T_bytes)
          THEN Ok(validateBytes(value[2], FixedLengthOf(parsed.baseType)))
        ELSE IF parsed.baseType = T_string THEN Ok(validateString(value[2]))
        ELSE Ok(Valid(value))
  IN  IF value = Undefined \/ value = NullV THEN Ok(Invalid("Value is required"))
      ELSE Dispatch(parseType(type))

\* validateParameterType testing !value, which takes the empty string for an
\* absent value: the variant that C17 must tell apart from the code.
validateParameterType_falsy(value, type, components) ==
  LET Dispatch(parsed) ==
        IF parsed.isArray THEN
          validateArray(value, innerTypeOf(parsed), components,
                        IF parsed.arrayDimensions # <<>> /\ parsed.arrayDimensions[1] # NullV
                          THEN parsed.arrayDimensions[1] ELSE Undefined)
        ELSE IF parsed.isTuple THEN
          IF components = NoComponents \/ components[2] = <<>>
            THEN Ok(Invalid("Tuple components are required"))
            ELSE validateTuple(value, components[2])
        ELSE IF parsed.baseType = T_address THEN Ok(validateAddress(value[2]))
        ELSE IF startsWith(parsed.baseType, T_uint)
          THEN Ok(validateUint(value[2], BitsOr256(slice(parsed.baseType, 4))))
        ELSE IF startsWith(parsed.baseType, T_int)
          THEN Ok(validateInt(value[2], BitsOr256(slice(parsed.baseType, 3))))
        ELSE IF parsed.baseType = T_bool THEN Ok(validateBool(value[2]))
        ELSE IF parsed.baseType = T_bytes THEN Ok(validateBytes(value[2], Undefined))
        ELSE IF startsWith(parsed.baseType, T_bytes)
          THEN Ok(validateBytes(value[2], FixedLengthOf(parsed.baseType)))
        ELSE IF parsed.baseType = T_string THEN Ok(validateString(value[2]))
        ELSE Ok(Valid(value))
  IN  IF value = Undefined \/ value = NullV \/ value = StrV(<<>>) THEN Ok(Invalid("Value is required"))
      ELSE Dispatch(parseType(type))

validateParameterType(value, type, components) ==
  LET Dispatch(parsed) ==
        IF parsed.isArray THEN
          validateArray(value, innerTypeOf(parsed), components,
                        IF parsed.arrayDimensions # <<>> /\ parsed.arrayDimensions[1] # NullV
                          THEN parsed.arrayDimensions[1] ELSE Undefined)
        ELSE IF parsed.isTuple THEN
          IF components = NoComponents \/ components[2] = <<>>
            THEN Ok(Invalid("Tuple components are required"))
            ELSE validateTuple(value, components[2])
        ELSE IF parsed.baseType = T_address THEN Ok(validateAddress(value[2]))
        ELSE IF startsWith(parsed.baseType, T_uint)
          THEN Ok(validateUint(value[2], BitsOr256(slice(parsed.baseType, 4))))
        ELSE IF startsWith(parsed.baseType, T_int)
          THEN Ok(validateInt(value[2], BitsOr256(slice(parsed.baseType, 3))))
        ELSE IF parsed.baseType = T_bool THEN Ok(validateBool(value[2]))
        ELSE IF parsed.baseType = T_bytes THEN Ok(validateBytes(value[2], Undefined))
        ELSE IF startsWith(parsed.baseType, T_bytes)
          THEN Ok(validateBytes(value[2], FixedLengthOf(parsed.baseType)))
        ELSE IF parsed.baseType = T_string THEN Ok(validateString(value[2]))
        ELSE Ok(Valid(value))
  IN  IF value = Undefined \/ value = NullV THEN Ok(Invalid("Value is required"))
      ELSE Dispatch(parseType(type))

(***************************************************************************)
(* Normalizer / denormalizer (validation/normalizers.ts)                   *)
(***************************************************************************)
\* x[name] for a value that came out of JSON.parse: a TypeError on null,
\* undefined on anything that is not an object (component names are
\* identifiers, never "length" or an index).
PropertyOf(x, name) ==
  IF x = NullV \/ x = Undefined THEN Throw("TypeError")
  ELSE IF x[1] = "object" THEN Ok(ObjGet(x[2], name))
  ELSE Ok(Undefined)

RECURSIVE normalizeParameterValue(_, _, _)
RECURSIVE normalizeItems(_, _, _, _, _)
RECURSIVE normalizeComponents(_, _, _, _)

\* arrayValue.map((item) => ...)
normalizeItems(items, i, innerType, components, acc) ==
  LET Mapped(r) ==
        IF IsThrow(r) THEN r
        ELSE normalizeItems(items, i + 1, innerType, components, Append(acc, r[2]))
      Item(itemValue) ==
        IF IsThrow(itemValue) THEN itemValue
        ELSE Mapped(normalizeParameterValue(itemValue[2], innerType, components))
  IN  IF i > Len(items) THEN Ok(ArrV(acc)) ELSE Item(TextOfMember(items[i]))

\* components.map leaving out a component the value lacks instead of
\* throwing: the variant that C18 must tell apart from the code.
normalizeComponents_skipMissing(tupleValue, components, i, acc) ==
  LET Mapped(r) ==
        IF IsThrow(r) THEN r
        ELSE normalizeComponents(tupleValue, components, i + 1, Append(acc, r[2]))
      Text(comp, compValueStr) ==
        IF IsThrow(compValueStr) THEN compValueStr
        ELSE Mapped(normalizeParameterValue(compValueStr[2], comp.type, comp.components))
      Field(comp, compValue) ==
        IF IsThrow(compValue) THEN compValue
        ELSE IF compValue[2] = Undefined
          THEN normalizeComponents(tupleValue, components, i + 1, acc)
        ELSE Text(comp, TextOfMember(compValue[2]))
  IN  IF i > Len(components) THEN Ok(ArrV(acc))
      ELSE Field(components[i], PropertyOf(tupleValue, components[i].name))

\* components.map((comp) => ...)
normalizeComponents(tupleValue, components, i, acc) ==
  LET Mapped(r) ==
        IF IsThrow(r) THEN r
        ELSE normalizeComponents(tupleValue, components, i + 1, Append(acc, r[2]))
      Text(comp, compValueStr) ==
        IF IsThrow(compValueStr) THEN compValueStr
        ELSE Mapped(normalizeParameterValue(compValueStr[2], comp.type, comp.components))
      Field(comp, compValue) ==
        IF IsThrow(compValue) THEN compValue
        ELSE IF compValue[2] = Undefined
          THEN Throw("Missing tuple field: " \o Str(comp.name))
        ELSE Text(comp, TextOfMember(compValue[2]))
  IN  IF i > Len(components) THEN Ok(ArrV(acc))
      ELSE Field(components[i], PropertyOf(tupleValue, components[i].name))

\* normalizeParameterValue rewriting an integer literal as the decimal text
\* of its value.
normalizeParameterValue_canonical(value, type, components) ==
  LET Array(parsed, arrayValue) ==
        IF value[1] = "string" /\ IsThrow(arrayValue)
          THEN Throw("Invalid JSON array for type " \o Str(type))
        ELSE IF value[1] # "string" /\ ~IsArray(value)
          THEN Throw("Expected array for type " \o Str(type))
        ELSE IF ~IsArray(arrayValue[2]) THEN Throw("TypeError")
        ELSE normalizeItems(arrayValue[2][2], 1, innerTypeOf(parsed), components, <<>>)
      Tuple(tupleValue) ==
        IF value[1] = "string" /\ IsThrow(tupleValue)
          THEN Throw("Invalid JSON object for tuple")
        ELSE IF value[1] # "string" /\ value[1] # "object"
          THEN Throw("Expected object for tuple")
        ELSE normalizeComponents(tupleValue[2], components[2], 1, <<>>)
      Scalar(parsed, stringValue) ==
        IF parsed.baseType = T_address THEN Ok(StrV(toLowerCase(stringValue)))
        ELSE IF startsWith(parsed.baseType, T_uint) \/ startsWith(parsed.baseType, T_int)
          THEN (IF IsThrow(BigInt(stringValue)) THEN Ok(StrV(stringValue))
                ELSE Ok(StrV(IntText(BigInt(stringValue)[2]))))
        ELSE IF parsed.baseType = T_bool THEN Ok(BoolV(toLowerCase(stringValue) = T_true))
        ELSE Ok(StrV(stringValue))
      Parse(text) == IF text[1] = "string" THEN JSONparse(text[2]) ELSE Ok(text)
      Dispatch(parsed) ==
        IF parsed.isArray THEN Array(parsed, Parse(value))
        ELSE IF parsed.isTuple /\ components # NoComponents THEN Tuple(Parse(value))
        ELSE Scalar(parsed, String(value))
  IN  Dispatch(parseType(type))

normalizeParameterValue(value, type, components) ==
  LET Array(parsed, arrayValue) ==
        IF value[1] = "string" /\ IsThrow(arrayValue)
          THEN Throw("Invalid JSON array for type " \o Str(type))
        ELSE IF value[1] # "string" /\ ~IsArray(value)
          THEN Throw("Expected array for type " \o Str(type))
        ELSE IF ~IsArray(arrayValue[2]) THEN Throw("TypeError")
        ELSE normalizeItems(arrayValue[2][2], 1, innerTypeOf(parsed), components, <<>>)
      Tuple(tupleValue) ==
        IF value[1] = "string" /\ IsThrow(tupleValue)
          THEN Throw("Invalid JSON object for tuple")
        ELSE IF value[1] # "string" /\ value[1] # "object"
          THEN Throw("Expected object for tuple")
        ELSE normalizeComponents(tupleValue[2], components[2], 1, <<>>)
      Scalar(parsed, stringValue) ==
        IF parsed.baseType = T_address THEN Ok(StrV(toLowerCase(stringValue)))
        ELSE IF startsWith(parsed.baseType, T_uint) \/ startsWith(parsed.baseType, T_int)
          THEN Ok(StrV(stringValue))
        ELSE IF parsed.baseType = T_bool THEN Ok(BoolV(toLowerCase(stringValue) = T_true))
        ELSE Ok(StrV(stringValue))
      Parse(text) == IF text[1] = "string" THEN JSONparse(text[2]) ELSE Ok(text)
      Dispatch(parsed) ==
        IF parsed.isArray THEN Array(parsed, Parse(value))
        ELSE IF parsed.isTuple /\ components # NoComponents THEN Tuple(Parse(value))
        ELSE Scalar(parsed, String(value))
  IN  Dispatch(parseType(type))

RECURSIVE denormalizeParameterValue(_, _, _)
RECURSIVE denormalizeComponents(_, _, _, _)

\* for (let i = 0; i < components.length; i++) { result[comp.name] = ... }
denormalizeComponents(value, components, i, result) ==
  LET Set(comp, item) ==
        denormalizeComponents(value, components, i + 1,
          ObjSet(result, comp.name,
                 StrV(denormalizeParameterValue(item, comp.type, comp.components))))
  IN  IF i > Len(components) THEN result
      ELSE Set(components[i], IF i <= Len(value) THEN value[i] ELSE Undefined)

\* Returns the display text.
denormalizeParameterValue(value, type, components) ==
  LET Display(parsed) ==
        IF parsed.isArray /\ IsArray(value) THEN
          Serialize(ArrV([i \in 1..Len(value[2]) |->
            StrV(denormalizeParameterValue(value[2][i], innerTypeOf(parsed), components))]))
        ELSE IF parsed.isTuple /\ components # NoComponents /\ IsArray(value) THEN
          Serialize(ObjV(denormalizeComponents(value[2], components[2], 1, <<>>)))
        ELSE IF value[1] = "bigint" THEN IntText(value[2])
        ELSE IF value[1] = "boolean" THEN (IF value[2] THEN T_true ELSE T_false)
        ELSE IF value = NullV \/ value = Undefined THEN <<>>
        ELSE String(value)
  IN  Display(parseType(type))

(***************************************************************************)
(* ABI utilities (core/abi-utils.ts)                                       *)
(* An AbiFunction is [name, inputs], inputs being components.              *)
(***************************************************************************)
AbiFunction(name, inputs) == [name |-> name, inputs |-> inputs]

\* ADDRESS_REGEX = /^0x[a-fA-F0-9]{40}$/ of abi-utils.ts
isValidAddress(address) ==
  /\ Len(address) = 42
  /\ address[1] = "0"
  /\ address[2] = "x"
  /\ \A i \in 3..42 : IsHexAnyCase(address[i])

getFunctionSignature(fn) ==
  fn.name \o <<"(">> \o Join([i \in 1..Len(fn.inputs) |-> fn.inputs[i].type], <<",">>)
          \o <<")">>

\* findFunctionBySignature resolving by the name in front of the parenthesis.
findFunctionBySignature_byName(signature, abi) ==
  LET NameOf(opens) ==
        IF opens = {} THEN signature
        ELSE SubSeq(signature, 1, (CHOOSE k \in opens : \A j \in opens : k <= j) - 1)
      First(matches) ==
        IF matches = {} THEN Undefined
        ELSE <<"function", abi[CHOOSE i \in matches : \A j \in matches : i <= j]>>
  IN  First({i \in 1..Len(abi) :
               abi[i].name = NameOf({k \in 1..Len(signature) : signature[k] = "("})})

\* abi.find(...): <<"function", the first match>>, or undefined
findFunctionBySignature(signature, abi) ==
  LET First(matches) ==
        IF matches = {} THEN Undefined
        ELSE <<"function", abi[CHOOSE i \in matches : \A j \in matches : i <= j]>>
  IN  First({i \in 1..Len(abi) : getFunctionSignature(abi[i]) = signature})

(***************************************************************************)
(* The binary codec: new Interface([func]) and iface.encodeFunctionData of *)
(* ethers, as encodeCalldata calls them. A ParamType is                    *)
(* <<"array", child, length>> (length -1: dynamic), <<"tuple", children>>  *)
(* or <<"basic", type>>. The words of the calldata are kept as the values  *)
(* they encode; the selector is kept as the canonical signature it hashes. *)
(***************************************************************************)
AllDecimal(s) == \A i \in 1..Len(s) : IsDigit(s[i])

\* verifyBasicType: address | bool | string | bytes([0-9]*) | u?int([0-9]*)
verifyBasicType(type) ==
  LET Width(digits, limit, step) ==
        IF DigitsValue(digits, 10, 0) # 0 /\ Len(digits) <= 3
           /\ DigitsValue(digits, 10, 0) <= limit
           /\ DigitsValue(digits, 10, 0) % step = 0
          THEN Ok(<<"basic", type>>) ELSE Throw("invalid width")
      Sized(prefix, alias, limit, step) ==
        IF Len(type) = Len(prefix) THEN Ok(<<"basic", alias>>)
        ELSE IF ~AllDecimal(slice(type, Len(prefix))) THEN Throw("invalid type")
        ELSE Width(slice(type, Len(prefix)), limit, step)
  IN  IF type \in {T_address, T_bool, T_string} THEN Ok(<<"basic", type>>)
      ELSE IF startsWith(type, T_bytes) THEN Sized(T_bytes, T_bytes, 32, 1)
      ELSE IF startsWith(type, T_uint) THEN Sized(T_uint, T_uint \o <<"2","5","6">>, 256, 8)
      ELSE IF startsWith(type, T_int) THEN Sized(T_int, T_int \o <<"2","5","6">>, 256, 8)
      ELSE Throw("invalid type")

RECURSIVE ParamTypeFrom(_, _)
RECURSIVE ParamTypesFrom(_, _, _)

\* components.map((c) => ParamType.from(c))
ParamTypesFrom(components, i, acc) ==
  LET Next_(child) ==
        IF IsThrow(child) THEN child
        ELSE ParamTypesFrom(components, i + 1, Append(acc, child[2]))
  IN  IF i > Len(components) THEN Ok(<<"tuple", acc>>)
      ELSE Next_(ParamTypeFrom(components[i].type, components[i].components))

\* ParamType.from({type, components}); the array pattern /^(.*)\[([0-9]*)\]$/
\* is greedy: the last bracket pair is the outermost dimension.
ParamTypeFrom(type, components) ==
  LET Child(child, length) ==
        IF IsThrow(child) THEN child ELSE Ok(<<"array", child[2], length>>)
      ArrayAt(k) ==
        Child(ParamTypeFrom(SubSeq(type, 1, k - 1), components),
              IF k + 1 = Len(type) THEN -1
              ELSE DigitsValue(SubSeq(type, k + 1, Len(type) - 1), 10, 0))
      Last(opens) == CHOOSE k \in opens : \A j \in opens : j <= k
      Array(opens) ==
        IF opens # {} /\ type[Len(type)] = "]"
           /\ AllDecimal(SubSeq(type, Last(opens) + 1, Len(type) - 1))
          THEN ArrayAt(Last(opens))
        ELSE IF type = T_tuple
          THEN IF components = NoComponents THEN Throw("TypeError")
               ELSE ParamTypesFrom(components[2], 1, <<>>)
        ELSE verifyBasicType(type)
  IN  Array({k \in 1..Len(type) : type[k] = "["})

RECURSIVE FormatType(_)
\* ParamType.format("sighash")
FormatType(pt) ==
  CASE pt[1] = "basic" -> pt[2]
    [] pt[1] = "array" ->
         FormatType(pt[2]) \o <<"[">> \o (IF pt[3] < 0 THEN <<>> ELSE IntText(pt[3])) \o <<"]">>
    [] pt[1] = "tuple" ->
         <<"(">> \o Join([i \in 1..Len(pt[2]) |-> FormatType(pt[2][i])], <<",">>) \o <<")">>

\* getBigInt(value) for a string, a number or a bigint
getBigInt(value) ==
  LET Negated(r) == IF IsThrow(r) THEN r ELSE Ok(-(r[2]))
      OfText(t) ==
        IF t = <<>> THEN Throw("invalid BigNumberish string")
        ELSE IF t[1] = "-" /\ (Len(t) < 2 \/ t[2] # "-") THEN Negated(BigInt(Tail(t)))
        ELSE BigInt(t)
  IN  CASE value[1] = "string" -> OfText(value[2])
        [] value[1] \in {"number", "bigint"} -> Ok(value[2])
        [] value[1] = "boolean" -> Throw("invalid BigNumberish value")
        [] OTHER -> Throw("invalid BigNumberish value")

\* getBytesCopy(value): a 0x-prefixed hex string of whole bytes
IsBytesLike(value) ==
  /\ value[1] = "string"
  /\ HEX_STRING_REGEX_test(value[2])
  /\ Len(value[2]) % 2 = 0

\* getAddress(value): the checksum of a mixed-case text is outside the model,
\* such a text is taken as failing it.
IsAddressLike(value) ==
  /\ value[1] = "string"
  /\ \/ isValidAddress(value[2])
     \/ Len(value[2]) = 40 /\ \A i \in 1..40 : IsHexAnyCase(value[2][i])
  /\ \/ \A i \in 1..Len(value[2]) : value[2][i] \notin {"A", "B", "C", "D", "E", "F"}
     \/ \A i \in 1..Len(value[2]) : value[2][i] \notin {"a", "b", "c", "d", "e", "f"}

RECURSIVE Encode(_, _)
RECURSIVE EncodeAll(_, _, _, _)

\* pack(writer, coders, values): each value through its coder, in order
EncodeAll(pts, values, i, acc) ==
  LET Next_(word) ==
        IF IsThrow(word) THEN word ELSE EncodeAll(pts, values, i + 1, Append(acc, word[2]))
  IN  IF i > Len(pts) THEN Ok(acc) ELSE Next_(Encode(pts[i], values[i]))

\* Coder.encode of the coder of pt
Encode(pt, value) ==
  LET Number(signed, bits, n) ==
        IF IsThrow(n) THEN n
        ELSE IF bits <= MaxModelPow
                /\ \/ signed /\ (n[2] > Pow2(bits - 1) - 1 \/ n[2] < -Pow2(bits - 1))
                   \/ ~signed /\ (n[2] < 0 \/ n[2] > Pow2(bits) - 1)
          THEN Throw("value out-of-bounds")
        ELSE IF bits > MaxModelPow /\ ~signed /\ n[2] < 0 THEN Throw("value out-of-bounds")
        ELSE Ok(<<"word", n[2]>>)
      Basic(type) ==
        IF type = T_address
          THEN IF IsAddressLike(value)
                 THEN Ok(<<"word", toLowerCase(IF Len(value[2]) = 40 THEN <<"0","x">> \o value[2]
                                                ELSE value[2])>>)
                 ELSE Throw("invalid address")
        ELSE IF type = T_bool THEN
          Ok(<<"word", ~(value \in {BoolV(FALSE), NullV, Undefined, StrV(<<>>), NumV(0), BigV(0)})>>)
        ELSE IF type = T_string
          THEN IF value[1] = "string" THEN Ok(<<"utf8", value[2]>>)
               ELSE Throw("invalid string value")
        ELSE IF type = T_bytes
          THEN IF IsBytesLike(value) THEN Ok(<<"bytes", toLowerCase(value[2])>>)
               ELSE Throw("invalid BytesLike value")
        ELSE IF startsWith(type, T_bytes)
          THEN IF ~IsBytesLike(value) THEN Throw("invalid BytesLike value")
               ELSE IF Len(value[2]) - 2 # 2 * DigitsValue(slice(type, 5), 10, 0)
                 THEN Throw("incorrect data length")
               ELSE Ok(<<"bytes", toLowerCase(value[2])>>)
        ELSE IF startsWith(type, T_uint)
          THEN Number(FALSE, DigitsValue(slice(type, 4), 10, 0), getBigInt(value))
        ELSE Number(TRUE, DigitsValue(slice(type, 3), 10, 0), getBigInt(value))
      Packed(tag, words) == IF IsThrow(words) THEN words ELSE Ok(<<tag, words[2]>>)
  IN  CASE pt[1] = "basic" -> Basic(pt[2])
        [] pt[1] = "array" ->
             IF ~IsArray(value) THEN Throw("expected array value")
             ELSE IF pt[3] >= 0 /\ Len(value[2]) # pt[3] THEN Throw("array length mismatch")
             ELSE Packed("array", EncodeAll([i \in 1..Len(value[2]) |-> pt[2]], value[2], 1, <<>>))
        [] pt[1] = "tuple" ->
             \* (an object is packed by component name; the normalizer hands
             \* a tuple over as an array)
             IF ~IsArray(value) THEN Throw("invalid tuple value")
             ELSE IF Len(value[2]) # Len(pt[2]) THEN Throw("types/value length mismatch")
             ELSE Packed("tuple", EncodeAll(pt[2], value[2], 1, <<>>))

\* new Interface([func]).encodeFunctionData(func.name, values):
\* Ok(<<"calldata", canonical signature, words>>) or Throw.
encodeFunctionData(func, values) ==
  LET Data(pt, words) ==
        IF IsThrow(words) THEN words
        ELSE Ok(<<"calldata", func.name \o FormatType(pt), words[2]>>)
      Fragment(pt) ==
        IF IsThrow(pt) THEN pt
        ELSE IF Len(values) # Len(func.inputs) THEN Throw("types/values length mismatch")
        ELSE Data(pt[2], EncodeAll(pt[2][2], values, 1, <<>>))
  IN  Fragment(ParamTypesFrom(func.inputs, 1, <<>>))

(***************************************************************************)
(* prepareParametersForEncoding (validation/normalizers.ts), encodeCalldata*)
(* (core/calldata-encoder.ts) and buildAction (core/action-builder.ts).    *)
(* parameters is the sequence of the <<name, value>> entries of the map.   *)
(* A Result is <<"failure", code, message>> or <<"success", data>>.        *)
(***************************************************************************)
Failure(code, message) == <<"failure", code, message>>
Success(data) == <<"success", data>>

RECURSIVE prepareParametersForEncoding(_, _, _, _)
\* inputs.map((input) => ...)
prepareParametersForEncoding(parameters, inputs, i, acc) ==
  LET Mapped(r) ==
        IF IsThrow(r) THEN r
        ELSE prepareParametersForEncoding(parameters, inputs, i + 1, Append(acc, r[2]))
      Entry(input, value) ==
        IF value = Undefined THEN Throw("Missing parameter: " \o Str(input.name))
        ELSE Mapped(normalizeParameterValue(value, input.type, input.components))
  IN  IF i > Len(inputs) THEN Ok(acc)
      ELSE Entry(inputs[i], ObjGet(parameters, inputs[i].name))

encodeCalldata(abi, functionSignature, parameters) ==
  LET Encoded(func, calldata) ==
        IF IsThrow(calldata)
          THEN Failure("ENCODING_FAILED", "Failed to encode calldata: " \o calldata[2])
          ELSE Success([calldata |-> calldata[2],
                        functionSignature |-> getFunctionSignature(func)])
      Prepared(func, encodedParams) ==
        IF IsThrow(encodedParams)
          THEN Failure("ENCODING_FAILED", "Failed to encode calldata: " \o encodedParams[2])
          ELSE Encoded(func, encodeFunctionData(func, encodedParams[2]))
      Found(func) ==
        IF func = Undefined
          THEN Failure("FUNCTION_NOT_FOUND", "Function not found: " \o Str(functionSignature))
          ELSE Prepared(func[2],
                        prepareParametersForEncoding(parameters, func[2].inputs, 1, <<>>))
  IN  Found(findFunctionBySignature(functionSignature, abi))

RECURSIVE validateInputs(_, _, _)
\* for (const inputParam of func.inputs) { ... } of buildAction: Ok(<<"pass">>),
\* Ok(the failure returned) or the exception JSON.stringify raised.
validateInputs(inputs, parameters, i) ==
  LET Validated(inputParam, validation) ==
        IF IsThrow(validation) THEN validation
        ELSE IF ~validation[2].isValid
          THEN Ok(Failure("INVALID_PARAMETER",
                          "Invalid parameter " \o Str(inputParam.name) \o ": "
                            \o validation[2].error))
        ELSE validateInputs(inputs, parameters, i + 1)
      Text(inputParam, valueStr) ==
        IF IsThrow(valueStr) THEN valueStr
        ELSE Validated(inputParam,
                       validateParameterType(valueStr[2], inputParam.type, inputParam.components))
      Entry(inputParam, value) ==
        IF value = Undefined
          THEN Ok(Failure("INVALID_PARAMETER", "Missing parameter: " \o Str(inputParam.name)))
        ELSE Text(inputParam, IF value[1] = "string" THEN Ok(value) ELSE JSONstringify(value))
  IN  IF i > Len(inputs) THEN Ok(<<"pass">>)
      ELSE Entry(inputs[i], ObjGet(parameters, inputs[i].name))

\* buildAction handing back the whole ABI it was given in the abi field.
buildAction_wholeAbi(input) ==
  LET Built(func, encodeResult) ==
        IF encodeResult[1] = "failure" THEN Ok(encodeResult)
        ELSE Ok(Success([contractAddress |-> toLowerCase(input.contractAddress),
                         functionSignature |-> encodeResult[2].functionSignature,
                         functionName |-> func.name,
                         calldata |-> encodeResult[2].calldata,
                         abi |-> input.abi,
                         value |-> input.value]))
      Checked(func, gate) ==
        IF IsThrow(gate) THEN gate
        ELSE IF gate[2] # <<"pass">> THEN gate
        ELSE Built(func, encodeCalldata(input.abi, input.functionSignature, input.parameters))
      Found(func) ==
        IF func = Undefined
          THEN Ok(Failure("FUNCTION_NOT_FOUND",
                          "Function not found: " \o Str(input.functionSignature)))
          ELSE Checked(func[2], validateInputs(func[2].inputs, input.parameters, 1))
  IN  IF ~isValidAddress(input.contractAddress)
        THEN Ok(Failure("INVALID_ADDRESS", "Invalid contract address"))
        ELSE Found(findFunctionBySignature(input.functionSignature, input.abi))

\* input is [contractAddress, functionSignature, parameters, value, abi];
\* Ok(Result) or the exception that left the function.
buildAction(input) ==
  LET Built(func, encodeResult) ==
        IF encodeResult[1] = "failure" THEN Ok(encodeResult)
        ELSE Ok(Success([contractAddress |-> toLowerCase(input.contractAddress),
                         functionSignature |-> encodeResult[2].functionSignature,
                         functionName |-> func.name,
                         calldata |-> encodeResult[2].calldata,
                         abi |-> <<func>>,
                         value |-> input.value]))
      Checked(func, gate) ==
        IF IsThrow(gate) THEN gate
        ELSE IF gate[2] # <<"pass">> THEN gate
        ELSE Built(func, encodeCalldata(input.abi, input.functionSignature, input.parameters))
      Found(func) ==
        IF func = Undefined
          THEN Ok(Failure("FUNCTION_NOT_FOUND",
                          "Function not found: " \o Str(input.functionSignature)))
          ELSE Checked(func[2], validateInputs(func[2].inputs, input.parameters, 1))
  IN  IF ~isValidAddress(input.contractAddress)
        THEN Ok(Failure("INVALID_ADDRESS", "Invalid contract address"))
        ELSE Found(findFunctionBySignature(input.functionSignature, input.abi))

\* buildActionFromPredefined of the builder module: the same gates over the
\* ABI handed in, input.abi is not read.
buildActionFromPredefined(input, abi) ==
  LET Built(func, encodeResult) ==
        IF encodeResult[1] = "failure" THEN Ok(encodeResult)
        ELSE Ok(Success([contractAddress |-> toLowerCase(input.contractAddress),
                         functionSignature |-> encodeResult[2].functionSignature,
                         functionName |-> func.name,
                         calldata |-> encodeResult[2].calldata,
                         abi |-> <<func>>,
                         value |-> input.value]))
      Checked(func, gate) ==
        IF IsThrow(gate) THEN gate
        ELSE IF gate[2] # <<"pass">> THEN gate
        ELSE Built(func, encodeCalldata(abi, input.functionSignature, input.parameters))
      Found(func) ==
        IF func = Undefined
          THEN Ok(Failure("FUNCTION_NOT_FOUND",
                          "Function not found: " \o Str(input.functionSignature)))
          ELSE Checked(func[2], validateInputs(func[2].inputs, input.parameters, 1))
  IN  IF ~isValidAddress(input.contractAddress)
        THEN Ok(Failure("INVALID_ADDRESS", "Invalid contract address"))
        ELSE Found(findFunctionBySignature(input.functionSignature, abi))

(***************************************************************************)
(* decodeCalldata and tryDecodeCalldata (core/calldata-decoder.ts) over    *)
(* new Interface(abi) and iface.parseTransaction of ethers. A decoded      *)
(* transaction is <<"transaction", [name, args]>>, or null when no         *)
(* fragment has the selector.                                              *)
(***************************************************************************)
Null == <<"null">>

\* getAddress of the coder: the decoded address carries the checksum letter
\* case, which the hash of the address decides; the hash is outside the
\* model, the letters at even places stand for the ones it raises.
ChecksumAddress(address) ==
  [i \in 1..Len(address) |->
     IF i > 2 /\ i % 2 = 0 /\ address[i] \in {"a","b","c","d","e","f"}
       THEN UpperLetters[IndexIn(address[i], LowerLetters)]
       ELSE address[i]]

RECURSIVE Decode(_, _)
\* Coder.decode of the coder of pt: the value the words stand for.
Decode(pt, word) ==
  CASE pt[1] = "basic" /\ pt[2] = T_address -> StrV(ChecksumAddress(word[2]))
    [] pt[1] = "basic" /\ pt[2] = T_bool -> BoolV(word[2])
    [] pt[1] = "basic" /\ pt[2] = T_string -> StrV(word[2])
    [] pt[1] = "basic" /\ startsWith(pt[2], T_bytes) -> StrV(word[2])
    [] pt[1] = "basic" /\ ~(pt[2] \in {T_address, T_bool, T_string})
                       /\ ~startsWith(pt[2], T_bytes) -> BigV(word[2])
    [] pt[1] = "array" -> ArrV([i \in 1..Len(word[2]) |-> Decode(pt[2], word[2][i])])
    [] pt[1] = "tuple" -> ArrV([i \in 1..Len(word[2]) |-> Decode(pt[2][i], word[2][i])])

\* The fragments new Interface(abi) keeps: an entry that is not a well-formed
\* fragment is skipped, and so is a later entry with a signature already seen.
IsFragment(fn) == ~IsThrow(ParamTypesFrom(fn.inputs, 1, <<>>))
FragmentFormat(fn) == fn.name \o FormatType(ParamTypesFrom(fn.inputs, 1, <<>>)[2])

\* iface.parseTransaction({ data }): the fragment with the selector of the
\* data, and the arguments decoded by its input types.
parseTransaction(abi, data) ==
  LET Description(fn) ==
        <<"transaction",
          [name |-> fn.name,
           args |-> Decode(ParamTypesFrom(fn.inputs, 1, <<>>)[2], <<"tuple", data[3]>>)[2]]>>
      Selected(matches) ==
        IF matches = {} THEN Null
        ELSE Description(abi[CHOOSE i \in matches : \A j \in matches : i <= j])
  IN  Selected({i \in 1..Len(abi) : IsFragment(abi[i]) /\ FragmentFormat(abi[i]) = data[2]})

RECURSIVE decodeParameters(_, _, _, _, _)
\* for (let i = 0; i < func.inputs.length; i++) { ... }: Ok(<<parameters,
\* parameterTypes>>), or the RangeError of reading decoded.args past its end.
decodeParameters(inputs, args, i, parameters, parameterTypes) ==
  LET Entry(input, paramName) ==
        IF i > Len(args) THEN Throw("out of result range")
        ELSE decodeParameters(inputs, args, i + 1,
               ObjSet(parameters, paramName,
                      StrV(denormalizeParameterValue(args[i], input.type, input.components))),
               Append(parameterTypes, input.type))
  IN  IF i > Len(inputs) THEN Ok(<<parameters, parameterTypes>>)
      ELSE Entry(inputs[i],
                 IF inputs[i].name = <<>> THEN <<"p","a","r","a","m">> \o IntText(i - 1)
                 ELSE inputs[i].name)

\* A Result: every exception is caught at the boundary.
decodeCalldata(calldata, abi) ==
  LET Reported(decoded, func, r) ==
        IF IsThrow(r)
          THEN Failure("DECODING_FAILED", "Failed to decode calldata: " \o r[2])
          ELSE Success([functionName |-> decoded.name,
                        functionSignature |-> getFunctionSignature(func),
                        parameters |-> r[2][1],
                        parameterTypes |-> r[2][2]])
      Looked(decoded, named) ==
        IF named = {}
          THEN Failure("FUNCTION_NOT_FOUND",
                       "Function " \o Str(decoded.name) \o " not found in ABI")
          ELSE Reported(decoded, abi[CHOOSE i \in named : \A j \in named : i <= j],
                     decodeParameters(abi[CHOOSE i \in named : \A j \in named : i <= j].inputs,
                                      decoded.args, 1, <<>>, <<>>))
      Transaction(decoded) ==
        IF decoded = Null
          THEN Failure("DECODING_FAILED",
                       "Failed to decode calldata - no matching function found")
          ELSE Looked(decoded[2], {i \in 1..Len(abi) : abi[i].name = decoded[2].name})
  IN  Transaction(parseTransaction(abi, calldata))

RECURSIVE combineAbis(_, _, _, _)
\* for (const abi of abis) for (const func of abi): the functions of the
\* ABIs in order, one per signature.
combineAbis(abis, a, f, combinedAbi) ==
  IF a > Len(abis) THEN combinedAbi
  ELSE IF f > Len(abis[a]) THEN combineAbis(abis, a + 1, 1, combinedAbi)
  ELSE IF \E k \in 1..Len(combinedAbi) :
             getFunctionSignature(combinedAbi[k]) = getFunctionSignature(abis[a][f])
    THEN combineAbis(abis, a, f + 1, combinedAbi)
  ELSE combineAbis(abis, a, f + 1, Append(combinedAbi, abis[a][f]))

tryDecodeCalldata(calldata, abis) == decodeCalldata(calldata, combineAbis(abis, 1, 1, <<>>))

(***************************************************************************)
(* Inputs of the scalar validators.                                        *)
(***************************************************************************)
Bits == (1..MaxBits) \cup {8, DefaultBits}

\* The decimal text of every integer around the ranges of the enumerated
\* widths, and literals that are not canonical decimal text.
NumberLimit == Pow2(MaxBits) + 1
CanonicalNumbers == (-NumberLimit)..NumberLimit \cup {127, 128, -128, -129, 255, 256}
OddNumberTexts ==
  { <<>>, <<" ","1">>, <<"1"," ">>, <<" ">>, <<"1","\n">>, <<"\t","1">>,
    <<"+","1">>, <<"-","0">>, <<"0","0","7">>, <<"0","x","1","F">>, <<"0","b","1","1">>,
    <<"0","o","1","7">>, <<"-","0","x","1">>, <<"0","x">>, <<"1",".","5">>, <<"1","e","3">>,
    <<"a","b","c">>, <<"1"," ","2">>, <<"-">>, <<"1","_","0">> }
NumberTexts == {IntText(n) : n \in CanonicalNumbers} \cup OddNumberTexts

AddressPrefixes == { <<"0","x">>, <<"0","X">>, <<>>, <<"0">>, <<"x">>, <<" ","0","x">>, <<"0","x","0","x">> }
AddressBodies ==
  { Rep(<<"a">>, 40), Rep(<<"A">>, 40), Rep(<<"1">>, 40), Rep(<<"a","B">>, 20),
    Rep(<<"F","0","e","D">>, 10), Rep(<<"1","2","3","4","5","6","7","8","9","0">>, 4),
    Rep(<<"a">>, 39), Rep(<<"a">>, 41), Rep(<<"g">>, 40), Rep(<<"a">>, 39) \o <<"G">>,
    Rep(<<"a">>, 39) \o <<" ">>, Rep(<<"A">>, 20) \o <<"x">> \o Rep(<<"b">>, 19),
    <<"1","2","3">>, <<>> }
AddressSuffixes == { <<>>, <<" ">>, <<"\n">> }
AddressTexts ==
  {p \o b \o x : p \in AddressPrefixes, b \in AddressBodies, x \in AddressSuffixes}
    \cup { <<"n","o","t"," ","a","n"," ","a","d","d","r","e","s","s">> }

BoolTexts ==
  { T_true, T_false, <<"T","R","U","E">>, <<"F","A","L","S","E">>, <<"T","r","u","e">>,
    <<" ","t","r","u","e">>, <<"t","r","u","e"," ">>, <<" ","T","R","U","E"," ">>,
    <<" ","f","a","l","s","e"," ">>, <<"\n","f","a","l","s","e">>, <<"t","r"," ","u","e">>,
    <<"y","e","s">>, <<"1">>, <<"0">>, <<>>, <<" ">>, <<"t","r","u","e","x">> }

ByteLengths == (0..MaxByteLen) \cup {20, 31, 32, 33, 34}
BytesTexts ==
  {<<"0","x">> \o Rep(<<"1","2">>, n) : n \in ByteLengths}
    \cup {<<"0","x">> \o Rep(<<"a","B">>, n) : n \in ByteLengths}
    \cup {<<"0","x">> \o Rep(<<"1","2">>, n) \o <<"3">> : n \in ByteLengths}
    \cup { <<>>, <<"1","2","3","4">>, <<"0","X","1","2">>, <<"0","x","G","G">>,
           <<"0","x","1","g">>, <<" ","0","x","1","2">>, <<"0","x","1","2"," ">>, <<"x">>, <<"0">> }
FixedLengths == {Undefined, <<"NaN">>} \cup {NumV(n) : n \in ByteLengths \cup {-1}}

StringTexts == { <<>>, <<"h","e","l","l","o">>, <<" ">>, <<"\"">>, <<"[","1","]">> }

(***************************************************************************)
(* Inputs of the dispatcher: type strings, component lists and value texts.*)
(***************************************************************************)
TY_address == T_address
TY_uint8 == T_uint \o <<"8">>
TY_uint256 == T_uint \o <<"2","5","6">>
TY_int8 == T_int \o <<"8">>
TY_bytes2 == T_bytes \o <<"2">>
TY_bytes33 == T_bytes \o <<"3","3">>
TY_bytes34 == T_bytes \o <<"3","4">>
Dyn == <<"[","]">>
Fix(n) == <<"[">> \o IntText(n) \o <<"]">>

ScalarTypes ==
  { TY_address, TY_uint8, T_uint, TY_uint256, TY_int8, T_int, T_bool, T_bytes, TY_bytes2,
    TY_bytes33, TY_bytes34, T_string,
    <<"f","o","o">>, <<"u","i","n","t","x">>, <<"u","i","n","t","-","8">>, <<"u","i","n","t","0">>, <<"i","n","t","-","1">>, <<"b","y","t","e","s","x">>, <<"b","y","t","e","s","0">>, <<"u","i","n","t","0","x","1","0">>, <<>> }

ArrayTypes ==
  { TY_uint8 \o Dyn, TY_uint8 \o Fix(2), TY_uint8 \o Fix(0), TY_uint8 \o Dyn \o Dyn,
    TY_uint8 \o Fix(2) \o Fix(3), TY_uint8 \o Fix(3) \o Fix(2), TY_uint256 \o Fix(2) \o Fix(3),
    TY_uint8 \o Dyn \o Fix(2), TY_uint8 \o Fix(2) \o Dyn,
    T_bool \o Dyn, T_string \o Dyn, TY_address \o Dyn, TY_bytes33 \o Dyn,
    TY_uint8 \o <<"[","a","b","c","]">>, TY_uint8 \o <<"[","2">>, <<"[","]">>, TY_uint8 \o Dyn \o <<"\n">> }

N_to == <<"t","o">>
N_amount == <<"a","m","o","u","n","t">>
N_flag == <<"f","l","a","g">>
N_inner == <<"i","n","n","e","r">>
N_ids == <<"i","d","s">>

TransferComponents ==
  Components(<<Param(N_to, TY_address, NoComponents), Param(N_amount, TY_uint8, NoComponents)>>)
NestedComponents ==
  Components(<<Param(N_flag, T_bool, NoComponents),
               Param(N_inner, T_tuple, Components(<<Param(N_amount, TY_uint8, NoComponents)>>)),
               Param(N_ids, TY_uint8 \o Dyn, NoComponents)>>)
ComponentLists == {NoComponents, Components(<<>>), TransferComponents, NestedComponents}

TupleTypes == {T_tuple, T_tuple \o Dyn, T_tuple \o Fix(2), T_tuple \o <<"[","a">>}

\* <<type, components>>: tuple types meet every component list.
TypeCases ==
  {<<t, NoComponents>> : t \in ScalarTypes \cup ArrayTypes}
    \cup {<<t, c>> : t \in TupleTypes, c \in ComponentLists}

\* Every sequence of at most n members of S.
SeqsUpTo(S, n) == UNION {[1..k -> S] : k \in 0..n}

AddrLower == <<"0","x">> \o Rep(<<"1">>, 40)
AddrMixed == <<"0","x">> \o Rep(<<"a","B">>, 20)
AddrUpperX == <<"0","X">> \o Rep(<<"A">>, 40)
AddrShort == <<"0","x","1","2","3">>

ParamNumberTexts ==
  {IntText(n) : n \in {0, 1, 2, 31, 32, 127, 128, 255, 256, 300, -1, -128, -129}}
    \cup OddNumberTexts
ParamAddressTexts == {AddrLower, AddrMixed, AddrUpperX, AddrShort}
ParamBytesTexts ==
  { <<"0","x">>, <<"0","x","1","2">>, <<"0","x","1","2","3","4">>, <<"0","x","A","b","c">>,
    <<"0","x","G","G">>, <<"1","2">>,
    <<"0","x">> \o Rep(<<"1","2">>, 32), <<"0","x">> \o Rep(<<"1","2">>, 33),
    <<"0","x">> \o Rep(<<"1","2">>, 34) }
ScalarTexts ==
  ParamNumberTexts \cup BoolTexts \cup ParamAddressTexts \cup ParamBytesTexts \cup StringTexts

\* JSON arrays of numbers and numeric strings, and arrays of such arrays.
ElementPool == {NumV(1), NumV(300), StrV(<<"2">>)}
InnerPool ==
  { ArrV(<<NumV(1), NumV(2)>>), ArrV(<<NumV(1), StrV(<<"2">>), NumV(3)>>),
    ArrV(<<NumV(1)>>), ArrV(<<NumV(300), NumV(2)>>) }
FlatArrays == {ArrV(e) : e \in SeqsUpTo(ElementPool, MaxLen)}
NestedArrays == {ArrV(e) : e \in SeqsUpTo(InnerPool, MaxLen)}
OtherArrays ==
  { ArrV(<<BoolV(TRUE), BoolV(FALSE)>>),
    ArrV(<<StrV(T_true), StrV(<<" ","t","r","u","e"," ">>)>>),
    ArrV(<<StrV(<<"T","R","U","E">>)>>),
    ArrV(<<StrV(AddrLower), StrV(AddrMixed)>>),
    ArrV(<<StrV(AddrLower), StrV(AddrShort)>>),
    ArrV(<<StrV(<<"a">>), NullV, NumV(1), ArrV(<<NumV(1)>>)>>),
    ArrV(<<StrV(<<"\"">>), StrV(<<"\\">>), StrV(<<"\n">>)>>),
    ArrV(<<NullV>>),
    ArrV(<<ArrV(<<ArrV(<<NumV(1)>>)>>)>>),
    ArrV(<<StrV(<<"0","x">> \o Rep(<<"1","2">>, 33))>>) }

TransferObj(to, amount) == ObjV(<< <<N_to, to>>, <<N_amount, amount>> >>)
NestedObj(flag, amount, ids) ==
  ObjV(<< <<N_flag, flag>>, <<N_inner, ObjV(<< <<N_amount, amount>> >>)>>, <<N_ids, ids>> >>)
Objects ==
  { TransferObj(StrV(AddrLower), StrV(<<"1","0">>)),
    TransferObj(StrV(AddrMixed), NumV(10)),
    ObjV(<< <<N_amount, StrV(<<"7">>)>>, <<N_to, StrV(AddrMixed)>> >>),
    ObjV(<< <<N_to, StrV(AddrLower)>> >>),
    ObjV(<< <<N_amount, StrV(<<"7">>)>> >>),
    ObjV(<< <<N_to, StrV(AddrShort)>> >>),
    ObjV(<<>>),
    TransferObj(StrV(AddrShort), StrV(<<"1">>)),
    TransferObj(StrV(AddrLower), StrV(<<"3","0","0">>)),
    TransferObj(NullV, StrV(<<"1">>)),
    ObjV(<< <<N_to, StrV(AddrLower)>>, <<N_amount, NumV(1)>>, <<<<"x">>, BoolV(TRUE)>> >>),
    NestedObj(BoolV(TRUE), NumV(5), ArrV(<<NumV(1), NumV(2)>>)),
    NestedObj(StrV(<<" ","t","r","u","e"," ">>), StrV(<<"5">>), ArrV(<<>>)),
    NestedObj(StrV(T_false), NumV(300), ArrV(<<NumV(1)>>)),
    NestedObj(StrV(T_false), NumV(3), ArrV(<<NumV(300)>>)),
    ObjV(<< <<N_flag, BoolV(FALSE)>>, <<N_inner, ObjV(<<>>)>>, <<N_ids, ArrV(<<>>)>> >>),
    ObjV(<< <<N_flag, BoolV(FALSE)>>, <<N_inner, NumV(1)>>, <<N_ids, ArrV(<<>>)>> >>) }
ObjectArrays ==
  { ArrV(<<TransferObj(StrV(AddrLower), StrV(<<"1">>)), TransferObj(StrV(AddrMixed), NumV(2))>>),
    ArrV(<<TransferObj(StrV(AddrLower), StrV(<<"1">>))>>),
    ArrV(<<TransferObj(StrV(AddrLower), StrV(<<"1">>)), ObjV(<< <<N_to, StrV(AddrLower)>> >>)>>),
    ArrV(<<TransferObj(StrV(AddrLower), StrV(<<"1">>)), NumV(1)>>) }

\* Texts JSON.stringify does not produce: white space, a repeated key, and
\* texts that are not JSON.
HandWrittenTexts ==
  { <<"[","1",",","2">>, <<"{">>, <<"n","o","t"," ","j","s","o","n">>, <<"[","1",",",",","2","]">>, <<"n","u","l","l">>, <<" ","["," ","1"," ",","," ","2"," ","]"," ">>, <<"[","1",",","2","]","x">>, <<"\"","a","b","c","\"">>, <<"5">>, <<"[","0","1","]">>, <<"["," ","[","1",","," ","2","]"," ",",","\n","[","1",",","2","]",","," ","[","1",",","2","]"," ","]">>, <<"{","\"","a","m","o","u","n","t","\""," ",":"," ","1"," ","}">>,
    <<"{">> \o Quote(N_to) \o <<":">> \o Quote(AddrShort) \o <<",">>
      \o Quote(N_amount) \o <<":","1",",">> \o Quote(N_to) \o <<":">> \o Quote(AddrLower) \o <<"}">> }

ValueTexts ==
  ScalarTexts
    \cup {Serialize(v) : v \in FlatArrays \cup NestedArrays \cup OtherArrays
                                \cup Objects \cup ObjectArrays}
    \cup HandWrittenTexts

(***************************************************************************)
(* Inputs of buildAction: an ABI, addresses, signatures, parameter maps.   *)
(***************************************************************************)
N_transfer == <<"t","r","a","n","s","f","e","r">>
N_pair == <<"p","a","i","r">>
N_data == <<"d","a","t","a">>
N_grid == <<"g","r","i","d">>
N_x == <<"x">>

F_transfer ==
  AbiFunction(N_transfer, <<Param(N_to, TY_address, NoComponents),
                            Param(N_amount, TY_uint8, NoComponents)>>)
F_transferTo == AbiFunction(N_transfer, <<Param(N_to, TY_address, NoComponents)>>)
F_setFlag == AbiFunction(<<"s","e","t","F","l","a","g">>, <<Param(N_flag, T_bool, NoComponents)>>)
F_setIds ==
  AbiFunction(<<"s","e","t","I","d","s">>, <<Param(N_ids, TY_uint8 \o Dyn, NoComponents)>>)
F_setPair ==
  AbiFunction(<<"s","e","t","P","a","i","r">>, <<Param(N_pair, T_tuple, TransferComponents)>>)
F_setData == AbiFunction(<<"s","e","t","D","a","t","a">>, <<Param(N_data, T_bytes, NoComponents)>>)
F_setGrid ==
  AbiFunction(<<"s","e","t","G","r","i","d">>,
              <<Param(N_grid, TY_uint8 \o Fix(2) \o Fix(3), NoComponents)>>)
F_custom == AbiFunction(<<"c","u","s","t","o","m">>, <<Param(N_x, <<"f","o","o">>, NoComponents)>>)
F_noop == AbiFunction(<<"n","o","o","p">>, <<>>)

FullAbi ==
  <<F_transfer, F_transferTo, F_setFlag, F_setIds, F_setPair, F_setData, F_setGrid,
    F_custom, F_noop>>
Abis == {FullAbi, <<>>}

BuildAddresses == {AddrLower, AddrMixed, AddrUpperX, AddrShort, <<>>}
Signatures ==
  {getFunctionSignature(FullAbi[i]) : i \in 1..Len(FullAbi)}
    \cup { <<"n","o","p","e","(",")">>, N_transfer,
           N_transfer \o <<"(">> \o TY_address \o <<","," ">> \o TY_uint8 \o <<")">> }

Grid(rows, columns) == ArrV([r \in 1..rows |-> ArrV([c \in 1..columns |-> NumV(r + c)])])

\* Parameter maps: the entries of input.parameters, in insertion order.
ParameterMaps ==
  { <<>>,
    << <<N_to, StrV(AddrLower)>>, <<N_amount, StrV(<<"1">>)>> >>,
    << <<N_amount, StrV(<<"2","5","5">>)>>, <<N_to, StrV(AddrMixed)>> >>,
    << <<N_to, StrV(AddrUpperX)>>, <<N_amount, StrV(<<"0","x","1","F">>)>> >>,
    << <<N_to, StrV(AddrLower)>>, <<N_amount, StrV(<<"3","0","0">>)>> >>,
    << <<N_to, StrV(AddrShort)>>, <<N_amount, StrV(<<"3","0","0">>)>> >>,
    << <<N_to, StrV(AddrShort)>> >>,
    << <<N_amount, StrV(<<"1">>)>> >>,
    << <<N_amount, StrV(<<"3","0","0">>)>> >>,
    << <<N_to, StrV(AddrLower)>>, <<N_amount, NumV(7)>> >>,
    << <<N_to, StrV(AddrLower)>>, <<N_amount, BigV(7)>> >>,
    << <<N_to, StrV(AddrShort)>>, <<N_amount, BigV(7)>> >>,
    << <<N_amount, BigV(7)>> >>,
    << <<N_to, NullV>>, <<N_amount, StrV(<<"1">>)>> >>,
    << <<N_flag, StrV(T_true)>> >>,
    << <<N_flag, StrV(<<" ","t","r","u","e"," ">>)>> >>,
    << <<N_flag, StrV(<<"y","e","s">>)>> >>,
    << <<N_flag, BoolV(TRUE)>> >>,
    << <<N_flag, BoolV(FALSE)>>, <<N_x, StrV(<<"1">>)>> >>,
    << <<N_ids, StrV(<<"[","1",",","2","]">>)>> >>,
    << <<N_ids, StrV(<<"[","1",",","3","0","0","]">>)>> >>,
    << <<N_ids, StrV(<<"[","1",",">>)>> >>,
    << <<N_ids, ArrV(<<NumV(1), StrV(<<"2">>)>>)>> >>,
    << <<N_ids, ArrV(<<BigV(1)>>)>> >>,
    << <<N_pair, StrV(Serialize(TransferObj(StrV(AddrMixed), StrV(<<"1","0">>))))>> >>,
    << <<N_pair, TransferObj(StrV(AddrLower), NumV(10))>> >>,
    << <<N_pair, TransferObj(StrV(AddrLower), BigV(10))>> >>,
    << <<N_pair, ObjV(<< <<N_to, StrV(AddrLower)>> >>)>> >>,
    << <<N_data, StrV(<<"0","x","1","2","A","b">>)>> >>,
    << <<N_data, StrV(<<"0","x","1","2","3">>)>> >>,
    << <<N_data, StrV(<<"1","2">>)>> >>,
    << <<N_grid, StrV(Serialize(Grid(2, 3)))>> >>,
    << <<N_grid, StrV(Serialize(Grid(3, 2)))>> >>,
    << <<N_grid, Grid(3, 2)>> >>,
    << <<N_x, StrV(<<"1">>)>> >> }

\* input.value: absent or a bigint
Values == {Undefined, BigV(0), BigV(1)}

BuildActionInput(contractAddress, functionSignature, parameters, value, abi) ==
  [contractAddress |-> contractAddress, functionSignature |-> functionSignature,
   parameters |-> parameters, value |-> value, abi |-> abi]


(***************************************************************************)
(* ActionBuilder (core/action-builder.ts): the address-to-ABI cache and    *)
(* loadContractAbi. A Map is the sequence of its <<key, value>> entries.   *)
(* loadContractAbi runs up to its await when it is called and from its     *)
(* await on when loadAbi settles; loads are the calls made so far, each    *)
(* [address, state, loaded, result]: state "awaiting" while loadAbi is in  *)
(* flight, loaded telling whether the call started loadAbi.                *)
(***************************************************************************)
MaxLoads == 3     \* loadContractAbi / load calls made on one object

MapHas(map, key) == \E i \in 1..Len(map) : map[i][1] = key
MapGet(map, key) == ObjGet(map, key)
MapSet(map, key, val) == ObjSet(map, key, val)
MapDelete(map, key) == SelectSeq(map, LAMBDA entry : entry[1] # key)

LoadAbiResult(proxyAbi, logicAbi, isProxy) ==
  [proxyAbi |-> proxyAbi, logicAbi |-> logicAbi, isProxy |-> isProxy]
LoadAbiResults ==
  { LoadAbiResult(<<F_transfer>>, <<>>, FALSE),
    LoadAbiResult(<<F_transfer>>, <<F_setFlag>>, TRUE) }

\* What loadAbi(address, config) may resolve to: the address gate decides, and
\* then the explorer and the node do.
loadAbi(address) ==
  IF ~isValidAddress(address)
    THEN {Failure("INVALID_ADDRESS", "Invalid Ethereum address")}
    ELSE {Success(data) : data \in LoadAbiResults}
           \cup {Failure("ABI_NOT_FOUND", "Contract source code not verified")}

NewActionBuilder == [abiCache |-> <<>>, loads |-> <<>>]

\* loadContractAbi up to its await: the cache is read under the lowercased
\* address; on a hit the call returns the entry, on a miss it starts loadAbi.
loadContractAbi(builder, address) ==
  IF MapHas(builder.abiCache, toLowerCase(address))
    THEN [builder EXCEPT !.loads =
            Append(@, [address |-> address, state |-> "returned", loaded |-> FALSE,
                       result |-> Success(MapGet(builder.abiCache, toLowerCase(address)))])]
    ELSE [builder EXCEPT !.loads =
            Append(@, [address |-> address, state |-> "awaiting", loaded |-> TRUE,
                       result |-> Undefined])]

\* loadContractAbi entering an existing entry no second time.
loadAbiSettled_firstWins(builder, i, result) ==
  [builder EXCEPT
     !.abiCache = IF result[1] = "success"
                     /\ ~MapHas(@, toLowerCase(builder.loads[i].address))
                    THEN MapSet(@, toLowerCase(builder.loads[i].address), result[2])
                    ELSE @,
     !.loads[i].state = "returned",
     !.loads[i].result = result]

\* loadContractAbi from its await on, for call i: a successful result is
\* entered under the lowercased address, and the result is returned.
loadAbiSettled(builder, i, result) ==
  [builder EXCEPT
     !.abiCache = IF result[1] = "success"
                    THEN MapSet(@, toLowerCase(builder.loads[i].address), result[2])
                    ELSE @,
     !.loads[i].state = "returned",
     !.loads[i].result = result]

clearCache(builder) == [builder EXCEPT !.abiCache = <<>>]
removeFromCache(builder, address) ==
  [builder EXCEPT !.abiCache = MapDelete(@, toLowerCase(address))]

(***************************************************************************)
(* useAbiLoader (hooks/useAbiLoader.ts) with its default options (autoLoad *)
(* on). The hook's state is address, isLoading, error and abiResult; its   *)
(* refs are debounceRef and abortRef. loads are the load() calls that went *)
(* past the address check, each with the AbortController it created:      *)
(* [address, state, aborted], state "awaiting" while loadAbi is in flight. *)
(* abortRef is the index of the load whose controller it holds, 0 for      *)
(* null. A pending debounce timer holds the address of the load callback   *)
(* its setAddress closed over: the address rendered when setAddress was    *)
(* called. abiResult is Null or <<"result", data>>; error is Null or       *)
(* <<code, message>>. loadAbi never rejects (it catches every exception),  *)
(* so the catch branch of load is not taken.                               *)
(***************************************************************************)
NewAbiLoader ==
  [address |-> <<>>, isLoading |-> FALSE, error |-> Null, abiResult |-> Null,
   debounceRef |-> Null, abortRef |-> 0, loads |-> <<>>]

AbortCurrent(loader) ==
  IF loader.abortRef # 0
    THEN [loader.loads EXCEPT ![loader.abortRef].aborted = TRUE]
    ELSE loader.loads

\* load() up to its await, for the address its closure holds.
useAbiLoader_load(loader, address) ==
  IF address = <<>> \/ ~isValidAddress(address)
    THEN [loader EXCEPT !.error = Null, !.abiResult = Null]
    ELSE [loader EXCEPT
            !.loads = Append(AbortCurrent(loader),
                             [address |-> address, state |-> "awaiting", aborted |-> FALSE]),
            !.abortRef = Len(loader.loads) + 1,
            !.isLoading = TRUE,
            !.error = Null]

\* load() from its await on, for load i: the signal read is that of the
\* controller abortRef holds now; finally clears isLoading.
useAbiLoader_loadSettled(loader, i, result) ==
  LET aborted == loader.loads[loader.abortRef].aborted IN
  [loader EXCEPT
     !.loads[i].state = "settled",
     !.abiResult = IF aborted THEN @
                   ELSE IF result[1] = "success" THEN <<"result", result[2]>> ELSE Null,
     !.error = IF aborted THEN @
               ELSE IF result[1] = "success" THEN Null ELSE <<result[2], result[3]>>,
     !.isLoading = FALSE]

useAbiLoader_setAddress(loader, newAddress) ==
  IF newAddress = <<>> \/ ~isValidAddress(newAddress)
    THEN [loader EXCEPT !.address = newAddress, !.debounceRef = Null,
                        !.abiResult = Null, !.error = Null]
    ELSE [loader EXCEPT !.address = newAddress,
                        !.debounceRef = <<"timer", loader.address>>]

useAbiLoader_reset(loader) ==
  [loader EXCEPT
     !.debounceRef = Null,
     !.loads = AbortCurrent(loader),
     !.address = <<>>,
     !.isLoading = FALSE,
     !.error = Null,
     !.abiResult = Null]

(***************************************************************************)
(* useParameterValidation inside useActionBuilder (hooks/                  *)
(* useActionBuilder.ts), validateOnChange on. The form is not mounted at   *)
(* first; mounting runs the useState initializer, and the effect that      *)
(* calls paramValidation.reset() is pending after the mount and after      *)
(* every change of selectedFunctionSignature: effectPending tells that     *)
(* the render committed but the effect has not run yet. func is            *)
(* selectedFunction, Undefined for null. parameterStates is the sequence   *)
(* of its <<name, state>> entries; a state's error is "" for null.          *)
(* validateParameterType always gives an error with an invalid outcome,    *)
(* so getParameterTypeErrorMessage is never the message.                   *)
(***************************************************************************)
validateOnChange == TRUE

F_approve ==
  AbiFunction(<<"a","p","p","r","o","v","e">>,
              <<Param(N_to, TY_address, NoComponents),
                Param(N_amount, TY_uint256, NoComponents)>>)
FormAbi == <<F_transfer, F_approve, F_setFlag>>

NewParameterValidation ==
  [mounted |-> FALSE, selectedFunctionSignature |-> <<>>, initialValues |-> <<>>,
   parameterStates |-> <<>>, effectPending |-> FALSE]

ParameterState(value, isValid, error, isDirty) ==
  [value |-> value, isValid |-> isValid, error |-> error, isDirty |-> isDirty]

selectedFunction(form) ==
  IF form.selectedFunctionSignature = <<>> THEN Undefined
  ELSE findFunctionBySignature(form.selectedFunctionSignature, FormAbi)

\* func.inputs.find((i) => i.name === name), 0 when there is none.
FindInput(fn, name) ==
  IF \E i \in 1..Len(fn.inputs) : fn.inputs[i].name = name
    THEN CHOOSE i \in 1..Len(fn.inputs) :
           /\ fn.inputs[i].name = name
           /\ \A j \in 1..(i - 1) : fn.inputs[j].name # name
    ELSE 0

ValidationOf(value, input) ==
  validateParameterType(StrV(value), input.type, input.components)[2]

\* initialValues[input.name] || ''
InitialValueOf(initialValues, name) ==
  IF MapHas(initialValues, name) THEN MapGet(initialValues, name) ELSE <<>>

\* The states built from func.inputs and initialValues: by the useState
\* initializer, which validates a non-empty initial value, and by reset,
\* which sets isValid to true.
RECURSIVE StatesOfInputs(_, _, _, _, _)
StatesOfInputs(inputs, initialValues, validated, i, states) ==
  IF i > Len(inputs) THEN states
  ELSE LET Built(initialValue) ==
             ParameterState(initialValue,
                            IF validated /\ initialValue # <<>>
                              THEN ValidationOf(initialValue, inputs[i]).isValid
                              ELSE TRUE,
                            "", FALSE)
       IN  StatesOfInputs(inputs, initialValues, validated, i + 1,
             MapSet(states, inputs[i].name,
                    Built(InitialValueOf(initialValues, inputs[i].name))))

useParameterValidation_initialState(func, initialValues) ==
  IF func = Undefined THEN <<>>
  ELSE StatesOfInputs(func[2].inputs, initialValues, TRUE, 1, <<>>)

useParameterValidation_reset(func, initialValues) ==
  IF func = Undefined THEN <<>>
  ELSE StatesOfInputs(func[2].inputs, initialValues, FALSE, 1, <<>>)

\* The state setValue and setValues enter for a value of an input.
ChangedState(value, input) ==
  LET Entered(result) == ParameterState(value, result.isValid, result.error, TRUE) IN
  IF validateOnChange /\ value # <<>>
    THEN Entered(ValidationOf(value, input))
    ELSE ParameterState(value, TRUE, "", TRUE)

useParameterValidation_setValue(func, prev, name, value) ==
  IF func = Undefined THEN prev
  ELSE IF FindInput(func[2], name) = 0 THEN prev
  ELSE MapSet(prev, name, ChangedState(value, func[2].inputs[FindInput(func[2], name)]))

RECURSIVE useParameterValidation_setValues(_, _, _, _)
useParameterValidation_setValues(func, newStates, values, i) ==
  IF func = Undefined \/ i > Len(values) THEN newStates
  ELSE useParameterValidation_setValues(func,
         useParameterValidation_setValue(func, newStates, values[i][1], values[i][2]),
         values, i + 1)

RECURSIVE ValidatedInputs(_, _, _, _)
ValidatedInputs(inputs, prev, newStates, i) ==
  IF i > Len(inputs) THEN newStates
  ELSE IF ~MapHas(prev, inputs[i].name)
    THEN ValidatedInputs(inputs, prev, newStates, i + 1)
  ELSE LET Checked(state, result) ==
             [state EXCEPT !.isValid = result.isValid, !.error = result.error]
       IN  ValidatedInputs(inputs, prev,
             MapSet(newStates, inputs[i].name,
                    Checked(MapGet(prev, inputs[i].name),
                            ValidationOf(MapGet(prev, inputs[i].name).value, inputs[i]))),
             i + 1)

useParameterValidation_validateAll(func, prev) ==
  IF func = Undefined THEN prev
  ELSE ValidatedInputs(func[2].inputs, prev, prev, 1)

isValid(form) ==
  /\ selectedFunction(form) # Undefined
  /\ \A i \in 1..Len(form.parameterStates) : form.parameterStates[i][2].isValid

isComplete(form) ==
  /\ selectedFunction(form) # Undefined
  /\ \A i \in 1..Len(selectedFunction(form)[2].inputs) :
       /\ MapHas(form.parameterStates, selectedFunction(form)[2].inputs[i].name)
       /\ trim(MapGet(form.parameterStates,
                      selectedFunction(form)[2].inputs[i].name).value) # <<>>

(***************************************************************************)
(* The state machine: a caller invokes one exported function on an input   *)
(* and the function returns.                                               *)
(***************************************************************************)
None == <<"none">>

Init ==
  /\ pc = "idle"
  /\ call = None
  /\ ret = None
  /\ prior = <<>>
  /\ actionBuilder = NewActionBuilder
  /\ abiLoader = NewAbiLoader
  /\ paramValidation = NewParameterValidation

ValidateAddressCall ==
  /\ pc = "idle"
  /\ \E value \in AddressTexts :
       /\ call' = <<"validateAddress", value>>
       /\ ret' = validateAddress(value)
  /\ pc' = "done"
  /\ prior' = <<>>
  /\ UNCHANGED objectVars

ValidateUintCall ==
  /\ pc = "idle"
  /\ \E value \in NumberTexts, bits \in Bits :
       /\ call' = <<"validateUint", value, bits>>
       /\ ret' = validateUint(value, bits)
  /\ pc' = "done"
  /\ prior' = <<>>
  /\ UNCHANGED objectVars

ValidateIntCall ==
  /\ pc = "idle"
  /\ \E value \in NumberTexts, bits \in Bits :
       /\ call' = <<"validateInt", value, bits>>
       /\ ret' = validateInt(value, bits)
  /\ pc' = "done"
  /\ prior' = <<>>
  /\ UNCHANGED objectVars

ValidateBoolCall ==
  /\ pc = "idle"
  /\ \E value \in BoolTexts :
       /\ call' = <<"validateBool", value>>
       /\ ret' = validateBool(value)
  /\ pc' = "done"
  /\ prior' = <<>>
  /\ UNCHANGED objectVars

ValidateBytesCall ==
  /\ pc = "idle"
  /\ \E value \in BytesTexts, fixedLength \in FixedLengths :
       /\ call' = <<"validateBytes", value, fixedLength>>
       /\ ret' = validateBytes(value, fixedLength)
  /\ pc' = "done"
  /\ prior' = <<>>
  /\ UNCHANGED objectVars

ValidateStringCall ==
  /\ pc = "idle"
  /\ \E value \in StringTexts :
       /\ call' = <<"validateString", value>>
       /\ ret' = validateString(value)
  /\ pc' = "done"
  /\ prior' = <<>>
  /\ UNCHANGED objectVars

(***************************************************************************)
(* The dispatcher, and the pipeline that follows a successful validation:  *)
(* normalize for the codec, denormalize for display, validate the display  *)
(* text again.                                                             *)
(***************************************************************************)
\* The integers of the model are bounded (MaxModelPow): a text holding a hex
\* run of more than MaxHexRun digits does not meet an integer type.
MaxHexRun == 7
HasLongHexRun(text) ==
  \E i \in 1..Len(text) :
    /\ i + MaxHexRun <= Len(text)
    /\ \A j \in i..(i + MaxHexRun) : IsHexAnyCase(text[j])
IsIntegerType(type) ==
  LET base == parseType(type).baseType IN
  startsWith(base, T_uint) \/ startsWith(base, T_int)
Enumerated(value, type) == ~(HasLongHexRun(value) /\ IsIntegerType(type))

ValidateParameterTypeCall ==
  /\ pc = "idle"
  /\ \E value \in ValueTexts, tc \in TypeCases :
       /\ Enumerated(value, tc[1])
       /\ call' = <<"validateParameterType", StrV(value), tc[1], tc[2]>>
       /\ ret' = validateParameterType(StrV(value), tc[1], tc[2])
  /\ pc' = "done"
  /\ prior' = <<>>
  /\ UNCHANGED objectVars

ParseTypeCall ==
  /\ pc = "idle"
  /\ \E tc \in TypeCases :
       /\ call' = <<"parseType", tc[1]>>
       /\ ret' = parseType(tc[1])
  /\ pc' = "done"
  /\ prior' = <<>>
  /\ UNCHANGED objectVars

NormalizeValidated ==
  /\ pc = "done"
  /\ call[1] = "validateParameterType"
  /\ prior = <<>>
  /\ ret[1] = "ok"
  /\ ret[2].isValid
  /\ call' = <<"normalizeParameterValue", call[2], call[3], call[4]>>
  /\ ret' = normalizeParameterValue(call[2], call[3], call[4])
  /\ prior' = Append(prior, <<call, ret>>)
  /\ pc' = "done"
  /\ UNCHANGED objectVars

DenormalizeNormalized ==
  /\ pc = "done"
  /\ call[1] = "normalizeParameterValue"
  /\ ret[1] = "ok"
  /\ call' = <<"denormalizeParameterValue", ret[2], call[3], call[4]>>
  /\ ret' = denormalizeParameterValue(ret[2], call[3], call[4])
  /\ prior' = Append(prior, <<call, ret>>)
  /\ pc' = "done"
  /\ UNCHANGED objectVars

RevalidateDisplayed ==
  /\ pc = "done"
  /\ call[1] = "denormalizeParameterValue"
  /\ call' = <<"validateParameterType", StrV(ret), call[3], call[4]>>
  /\ ret' = validateParameterType(StrV(ret), call[3], call[4])
  /\ prior' = Append(prior, <<call, ret>>)
  /\ pc' = "done"
  /\ UNCHANGED objectVars

\* The raw values a caller may hand over in place of a text: an absent value
\* (undefined, null) and the empty string.
RawValues == {Undefined, NullV, StrV(<<>>)}

\* The dispatcher called with a raw value, for every type case.
ValidateRawValueCall ==
  /\ pc = "idle"
  /\ \E value \in RawValues, tc \in TypeCases :
       /\ call' = <<"validateParameterType", value, tc[1], tc[2]>>
       /\ ret' = validateParameterType(value, tc[1], tc[2])
  /\ pc' = "done"
  /\ prior' = <<>>
  /\ UNCHANGED objectVars

\* The normalizer called directly on tuple values, as a mapping and as its
\* JSON text, validated or not.
TupleValues ==
  Objects \cup ObjectArrays \cup {StrV(Serialize(v)) : v \in Objects \cup ObjectArrays}

NormalizeParameterValueCall ==
  /\ pc = "idle"
  /\ \E value \in TupleValues, type \in TupleTypes, components \in ComponentLists :
       /\ call' = <<"normalizeParameterValue", value, type, components>>
       /\ ret' = normalizeParameterValue(value, type, components)
  /\ pc' = "done"
  /\ prior' = <<>>
  /\ UNCHANGED objectVars

NextNormalize == NormalizeParameterValueCall

\* The normalizer on tuple values.
SpecNormalize == Init /\ [][NextNormalize]_vars

NextRaw == ValidateRawValueCall

\* The dispatcher on absent and empty values.
SpecRaw == Init /\ [][NextRaw]_vars

NextParam ==
  \/ ParseTypeCall
  \/ ValidateParameterTypeCall
  \/ NormalizeValidated
  \/ DenormalizeNormalized
  \/ RevalidateDisplayed

\* The dispatcher and the round trip through the normalizer.
SpecParam == Init /\ [][NextParam]_vars

NextScalar ==
  \/ ValidateAddressCall
  \/ ValidateUintCall
  \/ ValidateIntCall
  \/ ValidateBoolCall
  \/ ValidateBytesCall
  \/ ValidateStringCall

\* The scalar validators called directly.
SpecScalar == Init /\ [][NextScalar]_vars

BuildActionCall ==
  /\ pc = "idle"
  /\ \E contractAddress \in BuildAddresses, functionSignature \in Signatures,
        parameters \in ParameterMaps, value \in Values, abi \in Abis :
       /\ call' = <<"buildAction",
                    BuildActionInput(contractAddress, functionSignature, parameters, value, abi)>>
       /\ ret' = buildAction(
                    BuildActionInput(contractAddress, functionSignature, parameters, value, abi))
  /\ pc' = "done"
  /\ prior' = <<>>
  /\ UNCHANGED objectVars

BuildActionFromPredefinedCall ==
  /\ pc = "idle"
  /\ \E contractAddress \in BuildAddresses, functionSignature \in Signatures,
        parameters \in ParameterMaps, value \in Values, abi \in Abis :
       /\ call' = <<"buildActionFromPredefined",
                    BuildActionInput(contractAddress, functionSignature, parameters, value, <<>>),
                    abi>>
       /\ ret' = buildActionFromPredefined(
                    BuildActionInput(contractAddress, functionSignature, parameters, value, <<>>),
                    abi)
  /\ pc' = "done"
  /\ prior' = <<>>
  /\ UNCHANGED objectVars

IsValidAddressCall ==
  /\ pc = "idle"
  /\ \E address \in AddressTexts :
       /\ call' = <<"isValidAddress", address>>
       /\ ret' = isValidAddress(address)
  /\ pc' = "done"
  /\ prior' = <<>>
  /\ UNCHANGED objectVars

NextBuild ==
  \/ BuildActionCall
  \/ BuildActionFromPredefinedCall
  \/ IsValidAddressCall

\* The action assembly and its address gate.
SpecBuild == Init /\ [][NextBuild]_vars

(***************************************************************************)
(* Inputs of the signature lookup: functions with a tuple array input and  *)
(* with the same signature under other parameter names, ABIs in several    *)
(* orders, and requested signatures that no function has.                  *)
(***************************************************************************)
N_recipient == <<"r","e","c","i","p","i","e","n","t">>
F_setPairs ==
  AbiFunction(<<"s","e","t","P","a","i","r","s">>,
              <<Param(N_pair, T_tuple \o Dyn, TransferComponents),
                Param(N_flag, T_bool, NoComponents)>>)
F_transferAlias ==
  AbiFunction(N_transfer, <<Param(N_recipient, TY_address, NoComponents),
                            Param(N_amount, TY_uint8, NoComponents)>>)
OverloadAbi == <<F_transferTo, F_transfer, F_setPairs>>
AliasAbi == <<F_transferAlias, F_transfer, F_transferTo>>
LookupFunctions == {FullAbi[i] : i \in 1..Len(FullAbi)} \cup {F_setPairs, F_transferAlias}
LookupAbis == {FullAbi, <<>>, OverloadAbi, AliasAbi}
LookupSignatures ==
  Signatures
    \cup { getFunctionSignature(F_setPairs),
           <<"s","e","t","P","a","i","r","(","(">> \o TY_address \o <<",">> \o TY_uint8
              \o <<")",")">>,
           <<"s","e","t","P","a","i","r","s","(">> \o T_tuple \o Dyn \o <<","," ">> \o T_bool
              \o <<")">>,
           <<" ">> \o getFunctionSignature(F_transferTo),
           <<"T","r","a","n","s","f","e","r","(">> \o TY_address \o <<")">>,
           <<>> }

GetFunctionSignatureCall ==
  /\ pc = "idle"
  /\ \E fn \in LookupFunctions :
       /\ call' = <<"getFunctionSignature", fn>>
       /\ ret' = getFunctionSignature(fn)
  /\ pc' = "done"
  /\ prior' = <<>>
  /\ UNCHANGED objectVars

FindFunctionBySignatureCall ==
  /\ pc = "idle"
  /\ \E signature \in LookupSignatures, abi \in LookupAbis :
       /\ call' = <<"findFunctionBySignature", signature, abi>>
       /\ ret' = findFunctionBySignature(signature, abi)
  /\ pc' = "done"
  /\ prior' = <<>>
  /\ UNCHANGED objectVars

EncodeAbis == {FullAbi, OverloadAbi, AliasAbi}
EncodeParameterMaps ==
  ParameterMaps
    \cup { << <<N_recipient, StrV(AddrMixed)>>, <<N_amount, StrV(<<"7">>)>> >>,
           << <<N_to, StrV(AddrLower)>>, <<N_amount, StrV(<<"0","0","7">>)>> >>,
           << <<N_pair, ArrV(<<TransferObj(StrV(AddrLower), StrV(<<"1">>))>>)>>,
              <<N_flag, StrV(<<"F","A","L","S","E">>)>> >> }
AbiLists == {<<FullAbi>>, <<OverloadAbi, FullAbi>>, <<AliasAbi, OverloadAbi>>, <<>>}

EncodeCalldataCall ==
  /\ pc = "idle"
  /\ \E abi \in EncodeAbis, functionSignature \in LookupSignatures,
        parameters \in EncodeParameterMaps :
       /\ call' = <<"encodeCalldata", abi, functionSignature, parameters>>
       /\ ret' = encodeCalldata(abi, functionSignature, parameters)
  /\ pc' = "done"
  /\ prior' = <<>>
  /\ UNCHANGED objectVars

\* The calldata just produced is decoded against an ABI.
DecodeEncoded ==
  /\ pc = "done"
  /\ call[1] = "encodeCalldata"
  /\ ret[1] = "success"
  /\ \E abi \in LookupAbis :
       /\ call' = <<"decodeCalldata", ret[2].calldata, abi>>
       /\ ret' = decodeCalldata(ret[2].calldata, abi)
  /\ prior' = Append(prior, <<call, ret>>)
  /\ pc' = "done"
  /\ UNCHANGED objectVars

\* The calldata just produced is decoded against several ABIs at once.
TryDecodeEncoded ==
  /\ pc = "done"
  /\ call[1] = "encodeCalldata"
  /\ ret[1] = "success"
  /\ \E abis \in AbiLists :
       /\ call' = <<"tryDecodeCalldata", ret[2].calldata, abis>>
       /\ ret' = tryDecodeCalldata(ret[2].calldata, abis)
  /\ prior' = Append(prior, <<call, ret>>)
  /\ pc' = "done"
  /\ UNCHANGED objectVars

NextAbi ==
  \/ GetFunctionSignatureCall
  \/ FindFunctionBySignatureCall
  \/ EncodeCalldataCall
  \/ DecodeEncoded
  \/ TryDecodeEncoded

\* The signature key, the lookup by it, and calldata encoded and decoded.
SpecAbi == Init /\ [][NextAbi]_vars

(***************************************************************************)
(* The calls on one ActionBuilder, interleaved with the loads in flight.   *)
(***************************************************************************)
CacheAddresses == {AddrMixed, toLowerCase(AddrMixed), AddrLower, AddrShort}

LoadContractAbiCall ==
  /\ Len(actionBuilder.loads) < MaxLoads
  /\ \E address \in CacheAddresses :
       actionBuilder' = loadContractAbi(actionBuilder, address)
  /\ UNCHANGED <<callVars, abiLoader, paramValidation>>

\* loadAbi settles for a call that awaits it.
LoadAbiSettles ==
  /\ \E i \in 1..Len(actionBuilder.loads) :
       /\ actionBuilder.loads[i].state = "awaiting"
       /\ \E result \in loadAbi(actionBuilder.loads[i].address) :
            actionBuilder' = loadAbiSettled(actionBuilder, i, result)
  /\ UNCHANGED <<callVars, abiLoader, paramValidation>>

ClearCacheCall ==
  /\ actionBuilder.abiCache # <<>>
  /\ actionBuilder' = clearCache(actionBuilder)
  /\ UNCHANGED <<callVars, abiLoader, paramValidation>>

RemoveFromCacheCall ==
  /\ \E address \in CacheAddresses :
       /\ actionBuilder' = removeFromCache(actionBuilder, address)
       /\ actionBuilder' # actionBuilder
  /\ UNCHANGED <<callVars, abiLoader, paramValidation>>

NextCache ==
  \/ LoadContractAbiCall
  \/ LoadAbiSettles
  \/ ClearCacheCall
  \/ RemoveFromCacheCall

\* One ActionBuilder under concurrent loadContractAbi calls.
SpecCache == Init /\ [][NextCache]_vars

(***************************************************************************)
(* One useAbiLoader: the calls of its owner, the debounce timer and the    *)
(* responses of the loads in flight, in any order.                         *)
(***************************************************************************)
LoaderAddresses == {<<>>, AddrLower, AddrMixed, AddrShort}

SetAddressCall ==
  /\ \E newAddress \in LoaderAddresses :
       abiLoader' = useAbiLoader_setAddress(abiLoader, newAddress)
  /\ UNCHANGED <<callVars, actionBuilder, paramValidation>>

DebounceFires ==
  /\ abiLoader.debounceRef # Null
  /\ Len(abiLoader.loads) < MaxLoads
  /\ abiLoader' = [useAbiLoader_load(abiLoader, abiLoader.debounceRef[2])
                     EXCEPT !.debounceRef = Null]
  /\ UNCHANGED <<callVars, actionBuilder, paramValidation>>

LoadCall ==
  /\ Len(abiLoader.loads) < MaxLoads
  /\ abiLoader' = useAbiLoader_load(abiLoader, abiLoader.address)
  /\ UNCHANGED <<callVars, actionBuilder, paramValidation>>

\* loadAbi settles for a load that awaits it.
LoadResponds ==
  /\ \E i \in 1..Len(abiLoader.loads) :
       /\ abiLoader.loads[i].state = "awaiting"
       /\ \E result \in loadAbi(abiLoader.loads[i].address) :
            abiLoader' = useAbiLoader_loadSettled(abiLoader, i, result)
  /\ UNCHANGED <<callVars, actionBuilder, paramValidation>>

ResetCall ==
  /\ abiLoader' = useAbiLoader_reset(abiLoader)
  /\ UNCHANGED <<callVars, actionBuilder, paramValidation>>

NextLoader ==
  \/ SetAddressCall
  \/ DebounceFires
  \/ LoadCall
  \/ LoadResponds
  \/ ResetCall

\* One useAbiLoader under overlapping loads.
SpecLoader == Init /\ [][NextLoader]_vars

(***************************************************************************)
(* One form: its mount, the calls of its owner and the pending effect.     *)
(***************************************************************************)
FormSignatures ==
  {<<>>, <<"n","o","n","e","(",")">>} \cup {getFunctionSignature(FormAbi[i]) : i \in 1..Len(FormAbi)}
FormTexts ==
  {<<>>, <<" ">>, <<"7">>, <<"3","0","0">>, <<"a","b","c">>, <<"t","r","u","e">>,
   AddrLower, AddrShort}
FormNames == {N_to, N_amount, N_flag, N_x}
FormValueMaps ==
  { <<>>,
    << <<N_to, AddrLower>>, <<N_amount, <<"7">>>> >>,
    << <<N_to, AddrLower>>, <<N_amount, <<"3","0","0">>>> >>,
    << <<N_amount, <<"a","b","c">>>>, <<N_to, AddrShort>> >>,
    << <<N_flag, <<"t","r","u","e">>>>, <<N_x, <<"7">>>> >>,
    << <<N_flag, <<"a","b","c">>>> >> }

MountForm ==
  /\ ~paramValidation.mounted
  /\ \E initialFunction \in FormSignatures, initialParameters \in FormValueMaps :
       paramValidation' =
         [mounted |-> TRUE,
          selectedFunctionSignature |-> initialFunction,
          initialValues |-> initialParameters,
          parameterStates |->
            useParameterValidation_initialState(
              selectedFunction([selectedFunctionSignature |-> initialFunction]),
              initialParameters),
          effectPending |-> TRUE]
  /\ UNCHANGED <<callVars, actionBuilder, abiLoader>>

\* useEffect(() => paramValidation.reset(), [selectedFunctionSignature])
ResetEffect ==
  /\ paramValidation.mounted
  /\ paramValidation.effectPending
  /\ paramValidation' =
       [paramValidation EXCEPT
          !.parameterStates =
             useParameterValidation_reset(selectedFunction(paramValidation),
                                          paramValidation.initialValues),
          !.effectPending = FALSE]
  /\ UNCHANGED <<callVars, actionBuilder, abiLoader>>

FormReady == paramValidation.mounted /\ ~paramValidation.effectPending

SetSelectedFunctionCall ==
  /\ FormReady
  /\ \E signature \in FormSignatures :
       /\ signature # paramValidation.selectedFunctionSignature
       /\ paramValidation' =
            [paramValidation EXCEPT !.selectedFunctionSignature = signature,
                                    !.effectPending = TRUE]
  /\ UNCHANGED <<callVars, actionBuilder, abiLoader>>

\* The texts entered for a name are those whose validation the model
\* computes for every input of that name.
FormEnumerated(name, value) ==
  \A f \in 1..Len(FormAbi) : \A i \in 1..Len(FormAbi[f].inputs) :
    FormAbi[f].inputs[i].name = name => Enumerated(value, FormAbi[f].inputs[i].type)

SetValueCall ==
  /\ FormReady
  /\ \E name \in FormNames, value \in FormTexts :
       /\ FormEnumerated(name, value)
       /\ paramValidation' =
            [paramValidation EXCEPT !.parameterStates =
               useParameterValidation_setValue(selectedFunction(paramValidation), @,
                                               name, value)]
  /\ UNCHANGED <<callVars, actionBuilder, abiLoader>>

SetValuesCall ==
  /\ FormReady
  /\ \E values \in FormValueMaps :
       paramValidation' =
         [paramValidation EXCEPT !.parameterStates =
            useParameterValidation_setValues(selectedFunction(paramValidation), @, values, 1)]
  /\ UNCHANGED <<callVars, actionBuilder, abiLoader>>

ValidateAllCall ==
  /\ FormReady
  /\ paramValidation' =
       [paramValidation EXCEPT !.parameterStates =
          useParameterValidation_validateAll(selectedFunction(paramValidation), @)]
  /\ UNCHANGED <<callVars, actionBuilder, abiLoader>>

ResetParametersCall ==
  /\ FormReady
  /\ paramValidation' =
       [paramValidation EXCEPT !.parameterStates =
          useParameterValidation_reset(selectedFunction(paramValidation),
                                       paramValidation.initialValues)]
  /\ UNCHANGED <<callVars, actionBuilder, abiLoader>>

NextForm ==
  \/ MountForm
  \/ ResetEffect
  \/ SetSelectedFunctionCall
  \/ SetValueCall
  \/ SetValuesCall
  \/ ValidateAllCall
  \/ ResetParametersCall

\* One parameter form from its mount on.
SpecForm == Init /\ [][NextForm]_vars

Next ==
  \/ NextScalar
  \/ NextParam
  \/ NextBuild
  \/ NextRaw
  \/ NextNormalize
  \/ NextAbi
  \/ NextCache
  \/ NextLoader
  \/ NextForm

Spec == Init /\ [][Next]_vars

(***************************************************************************)
(* Properties. Each is stated over the call that has just returned: call   *)
(* holds the function and its arguments, ret what it returned.             *)
(***************************************************************************)
Returned(name) == pc = "done" /\ call[1] = name

HexDigitChars ==
  {"0","1","2","3","4","5","6","7","8","9","a","b","c","d","e","f","A","B","C","D","E","F"}

\* 0x followed by hex digits only (possibly none)
IsHexText(s) ==
  /\ Len(s) >= 2
  /\ s[1] = "0"
  /\ s[2] = "x"
  /\ \A i \in 3..Len(s) : s[i] \in HexDigitChars

\* The first call of a round trip and what it returned.
FirstCall == prior[1][1]
FirstRet == prior[1][2]

\* C1: for every type T and every text V that validateParameterType accepts
\* for T, denormalizeParameterValue(normalizeParameterValue(V, T), T) is a
\* text that validateParameterType accepts again for T, with the same
\* validated value as V.
C1_RoundTrip ==
  (Returned("validateParameterType") /\ Len(prior) = 3) =>
     /\ ret[1] = "ok"
     /\ ret[2].isValid
     /\ ret[2].normalizedValue = FirstRet[2].normalizedValue

\* C2: parseType records the dimensions outermost first: "uint256[2][3]" has
\* base type uint256 and dimensions [3, 2], and a value accepted for T[a][b]
\* has exactly b elements, each of exactly a elements.
C2_OutermostFirst ==
  /\ (Returned("parseType") /\ call[2] = TY_uint256 \o Fix(2) \o Fix(3)) =>
        /\ ret.baseType = TY_uint256
        /\ ret.arrayDimensions = <<NumV(3), NumV(2)>>
  /\ \A a \in 2..3, b \in 2..3 :
       ( /\ Returned("validateParameterType")
         /\ call[3] \in {TY_uint8 \o Fix(a) \o Fix(b), TY_uint256 \o Fix(a) \o Fix(b)}
         /\ ret[1] = "ok"
         /\ ret[2].isValid ) =>
           /\ Len(ret[2].normalizedValue[2]) = b
           /\ \A i \in 1..Len(ret[2].normalizedValue[2]) :
                Len(ret[2].normalizedValue[2][i][2]) = a

\* 0x followed by exactly 40 hex digits
IsWellFormedAddress(a) == IsHexText(a) /\ Len(a) = 42

\* The declared inputs that are missing from the map or fail validation.
FailingInputs(fn, parameters) ==
  {i \in 1..Len(fn.inputs) :
     LET value == ObjGet(parameters, fn.inputs[i].name)
         text == IF value[1] = "string" THEN Ok(value) ELSE JSONstringify(value)
     IN  \/ value = Undefined
         \/ IsThrow(text)
         \/ ~validateParameterType(text[2], fn.inputs[i].type,
                                   fn.inputs[i].components)[2].isValid}

\* The codec rejects the normalized values of the parameters.
CodecRejects(fn, parameters) ==
  LET prepared == prepareParametersForEncoding(parameters, fn.inputs, 1, <<>>) IN
  IsThrow(prepared) \/ IsThrow(encodeFunctionData(fn, prepared[2]))

\* The outcome the gates give in their order, for a result that was returned.
GatesInOrder(input, abi, result) ==
  LET matches == {i \in 1..Len(abi) : getFunctionSignature(abi[i]) = input.functionSignature}
      fn == abi[CHOOSE i \in matches : \A j \in matches : i <= j]
      failing == FailingInputs(fn, input.parameters)
      first == fn.inputs[CHOOSE i \in failing : \A j \in failing : i <= j]
      value == ObjGet(input.parameters, first.name)
      text == IF value[1] = "string" THEN Ok(value) ELSE JSONstringify(value)
  IN  IF ~IsWellFormedAddress(input.contractAddress)
        THEN result[1] = "failure" /\ result[2] = "INVALID_ADDRESS"
      ELSE IF matches = {}
        THEN result[1] = "failure" /\ result[2] = "FUNCTION_NOT_FOUND"
      ELSE IF failing # {}
        THEN /\ result[1] = "failure"
             /\ result[2] = "INVALID_PARAMETER"
             /\ IF value = Undefined
                  THEN result[3] = "Missing parameter: " \o Str(first.name)
                  ELSE /\ ~IsThrow(text)
                       /\ result[3] =
                            "Invalid parameter " \o Str(first.name) \o ": "
                              \o validateParameterType(text[2], first.type,
                                                        first.components)[2].error
      ELSE IF CodecRejects(fn, input.parameters)
        THEN result[1] = "failure" /\ result[2] = "ENCODING_FAILED"
      ELSE result[1] = "success"

\* C3: buildAction and buildActionFromPredefined return the failure of the
\* first gate that fails, in the order address, signature, parameters (in
\* declaration order), codec, and an Action only when every gate passed.
C3_GatesInOrder ==
  /\ Returned("buildAction") =>
       ret[1] = "ok" /\ GatesInOrder(call[2], call[2].abi, ret[2])
  /\ Returned("buildActionFromPredefined") =>
       ret[1] = "ok" /\ GatesInOrder(call[2], call[3], ret[2])

RECURSIVE AllPartsValid(_, _, _)
\* The value is accepted for the type, and so is every element of an array
\* and every declared field of a tuple, down to the scalars.
AllPartsValid(value, type, components) ==
  LET parsed == parseType(type)
      json == IF value[1] = "string" THEN JSONparse(value[2]) ELSE Ok(value)
      result == validateParameterType(value, type, components)
  IN  /\ result[1] = "ok"
      /\ result[2].isValid
      /\ parsed.isArray =>
           /\ ~IsThrow(json)
           /\ \A i \in 1..Len(json[2][2]) :
                AllPartsValid(TextOfMember(json[2][2][i])[2], innerTypeOf(parsed), components)
      /\ (~parsed.isArray /\ parsed.isTuple) =>
           /\ ~IsThrow(json)
           /\ \A i \in 1..Len(components[2]) :
                AllPartsValid(TextOfMember(ObjGet(json[2][2], components[2][i].name))[2],
                              components[2][i].type, components[2][i].components)

\* C4: validateParameterType never raises: it returns an outcome that is
\* valid with a normalizedValue and no error, or invalid with an error; a
\* composite whose text is not JSON is invalid, and no outcome is valid when
\* an element or a field of the value fails.
C4_NeverRaises ==
  Returned("validateParameterType") =>
     /\ ret[1] = "ok"
     /\ IF ret[2].isValid
          THEN ret[2].error = "" /\ ret[2].normalizedValue # Undefined
          ELSE ret[2].error # "" /\ ret[2].normalizedValue = Undefined
     /\ ( /\ parseType(call[3]).isArray \/ parseType(call[3]).isTuple
          /\ IsThrow(JSONparse(call[2][2])) ) => ~ret[2].isValid
     /\ ret[2].isValid => AllPartsValid(call[2], call[3], call[4])

\* An array with a failing element was refused, naming the element.
C4_Witness ==
  /\ Returned("validateParameterType")
  /\ call[2] = StrV(Serialize(ArrV(<<NumV(1), NumV(300)>>)))
  /\ call[3] = TY_uint8 \o Dyn
  /\ ret = Ok(Invalid("Invalid element at index 1: Value exceeds uint8 max"))

InUintRange(n, bits) == n >= 0 /\ (bits > MaxModelPow \/ n <= Pow2(bits) - 1)

\* C5: validateUint accepts the decimal text of N, with normalizedValue N,
\* exactly when 0 <= N <= 2^bits - 1; 2^bits and -1 are refused.
C5_UintRange ==
  \A n \in CanonicalNumbers :
    (Returned("validateUint") /\ call[2] = IntText(n)) =>
       IF InUintRange(n, call[3]) THEN ret = Valid(BigV(n)) ELSE ~ret.isValid

\* The largest value of the widest enumerated small width was accepted.
C5_Witness ==
  /\ Returned("validateUint")
  /\ call[2] = IntText(Pow2(MaxBits) - 1)
  /\ call[3] = MaxBits
  /\ ret = Valid(BigV(Pow2(MaxBits) - 1))

InIntRange(n, bits) ==
  bits - 1 > MaxModelPow \/ (n >= -Pow2(bits - 1) /\ n <= Pow2(bits - 1) - 1)

\* C6: validateInt accepts the decimal text of N, with normalizedValue N,
\* exactly when -2^(bits-1) <= N <= 2^(bits-1) - 1; one past each boundary
\* is refused.
C6_IntRange ==
  \A n \in CanonicalNumbers :
    (Returned("validateInt") /\ call[2] = IntText(n)) =>
       IF InIntRange(n, call[3]) THEN ret = Valid(BigV(n)) ELSE ~ret.isValid

\* The smallest value of the widest enumerated small width was accepted.
C6_Witness ==
  /\ Returned("validateInt")
  /\ call[2] = IntText(-Pow2(MaxBits - 1))
  /\ call[3] = MaxBits
  /\ ret = Valid(BigV(-Pow2(MaxBits - 1)))

\* 0x and 40 hex digits, every letter in either case
HasAddressShape(s) ==
  /\ Len(s) = 42
  /\ s[1] = "0"
  /\ s[2] \in {"x", "X"}
  /\ \A i \in 3..42 : s[i] \in HexDigitChars

\* C7: validateAddress accepts every text of 0x and 40 hex digits in any
\* letter case and normalizes it to its lowercase form; validating that form
\* again returns it unchanged; the empty text and every text of another
\* shape are refused.
C7_AddressCaseFolding ==
  Returned("validateAddress") =>
     IF HasAddressShape(call[2])
       THEN /\ ret = Valid(StrV(toLowerCase(call[2])))
            /\ validateAddress(ret.normalizedValue[2]) = ret
       ELSE ~ret.isValid

\* A mixed-case address was accepted and folded to another text.
C7_Witness ==
  /\ Returned("validateAddress")
  /\ call[2] = AddrMixed
  /\ ret.isValid
  /\ ret.normalizedValue[2] # call[2]

\* C8: the address gate of buildAction is the shape check of validateAddress:
\* isValidAddress(a) is true exactly when validateAddress(a) is valid, and
\* buildAction returns INVALID_ADDRESS exactly when validateAddress refuses
\* the address.
C8_AddressGateIsValidator ==
  /\ Returned("isValidAddress") => (ret <=> validateAddress(call[2]).isValid)
  /\ (Returned("buildAction") \/ Returned("buildActionFromPredefined")) =>
       ( (ret[1] = "ok" /\ ret[2][1] = "failure" /\ ret[2][2] = "INVALID_ADDRESS")
           <=> ~validateAddress(call[2].contractAddress).isValid )

\* C9: with a fixed length N validateBytes accepts only 0x-prefixed hex of
\* exactly N bytes ("0x1234" is refused and "0x12" accepted for N = 1);
\* without a fixed length it accepts exactly the 0x-prefixed hex texts, "0x"
\* included.
C9_BytesLength ==
  Returned("validateBytes") =>
     /\ call[3][1] = "number" =>
          (ret.isValid => IsHexText(call[2]) /\ Len(call[2]) - 2 = 2 * call[3][2])
     /\ call[3] = Undefined => (ret.isValid <=> IsHexText(call[2]))
     /\ (call[2] = <<"0","x","1","2","3","4">> /\ call[3] = NumV(1)) => ~ret.isValid
     /\ (call[2] = <<"0","x","1","2">> /\ call[3] = NumV(1)) => ret = Valid(StrV(call[2]))

\* One byte was accepted for the fixed length 1.
C9_Witness ==
  /\ Returned("validateBytes")
  /\ call[2] = <<"0","x","1","2">>
  /\ call[3] = NumV(1)
  /\ ret.isValid

\* C10: for bytesN with N above 32 every value is refused with the error
\* "Fixed bytes cannot exceed 32", whatever its length.
C10_FixedBytesCeiling ==
  ( /\ Returned("validateParameterType")
    /\ call[3] \in {TY_bytes33, TY_bytes34}
    /\ IsHexText(call[2][2]) ) =>
       /\ ret[1] = "ok"
       /\ ~ret[2].isValid
       /\ ret[2].error = "Fixed bytes cannot exceed 32"

\* A run of digits of the given set, at least one.
IsDigitRun(s, digits) == s # <<>> /\ \A i \in 1..Len(s) : s[i] \in digits

\* An integer literal: decimal digits with an optional sign, or a 0x, 0o or 0b
\* prefix followed by digits of that radix.
IsIntegerLiteral(s) ==
  \/ IsDigitRun(s, {"0","1","2","3","4","5","6","7","8","9"})
  \/ /\ Len(s) >= 2
     /\ s[1] \in {"+", "-"}
     /\ IsDigitRun(Tail(s), {"0","1","2","3","4","5","6","7","8","9"})
  \/ /\ Len(s) >= 3
     /\ s[1] = "0"
     /\ \/ s[2] \in {"x", "X"} /\ IsDigitRun(Tail(Tail(s)), HexDigitChars)
        \/ s[2] \in {"o", "O"} /\ IsDigitRun(Tail(Tail(s)), {"0","1","2","3","4","5","6","7"})
        \/ s[2] \in {"b", "B"} /\ IsDigitRun(Tail(Tail(s)), {"0","1"})

\* C11: validateUint and validateInt trim nothing: a literal with leading or
\* trailing white space, the empty literal and a literal that is no integer
\* literal are refused, for every bit width.
C11_NoImplicitTrimming ==
  (Returned("validateUint") \/ Returned("validateInt")) =>
     ( ( \/ call[2] = <<>>
         \/ call[2][1] \in {" ", "\t", "\n", "\r"}
         \/ call[2][Len(call[2])] \in {" ", "\t", "\n", "\r"}
         \/ ~IsIntegerLiteral(call[2]) ) => ~ret.isValid )

\* A literal with a leading space was refused for its white space.
C11_Witness ==
  /\ Returned("validateUint")
  /\ call[2] = <<" ", "1">>
  /\ call[3] = 8
  /\ ret = Invalid("Invalid number format (no spaces allowed)")

\* The call validated a JSON array text against an array type, and the array
\* has the length the first recorded dimension asks for.
ArrayOfCheckedLength ==
  /\ Returned("validateParameterType")
  /\ parseType(call[3]).isArray
  /\ ~IsThrow(JSONparse(call[2][2]))
  /\ IsArray(JSONparse(call[2][2])[2])
  /\ \/ parseType(call[3]).arrayDimensions = <<>>
     \/ parseType(call[3]).arrayDimensions[1] = NullV
     \/ Len(JSONparse(call[2][2])[2][2]) = parseType(call[3]).arrayDimensions[1][2]

\* What validating one element of the array of the call gives.
ElementOutcome(element) ==
  validateParameterType(TextOfMember(element)[2], innerTypeOf(parseType(call[3])), call[4])[2]

\* C12: validateArray validates the elements in index order and stops at the
\* first that fails, the error naming its zero-based index and carrying its
\* own message; when none fails the result is valid and its normalizedValue
\* is the sequence of the elements' normalized values, in input order.
C12_FirstFailingElement ==
  ArrayOfCheckedLength =>
    LET elements == JSONparse(call[2][2])[2][2]
        failing == {i \in 1..Len(elements) : ~ElementOutcome(elements[i]).isValid}
        first == CHOOSE i \in failing : \A j \in failing : i <= j
    IN  IF failing # {}
          THEN ret = Ok(Invalid("Invalid element at index " \o ToString(first - 1) \o ": "
                                \o ElementOutcome(elements[first]).error))
          ELSE ret = Ok(Valid(ArrV([i \in 1..Len(elements) |->
                                     ElementOutcome(elements[i]).normalizedValue])))

\* Of two failing elements the first was reported.
C12_Witness ==
  /\ Returned("validateParameterType")
  /\ call[2] = StrV(Serialize(ArrV(<<NumV(1), NumV(300), NumV(300)>>)))
  /\ call[3] = TY_uint8 \o Dyn
  /\ ret = Ok(Invalid("Invalid element at index 1: Value exceeds uint8 max"))

\* The type text ends with a bracket group of digits or an empty one.
EndsWithDimension(type) ==
  /\ Len(type) >= 3
  /\ type[Len(type)] = "]"
  /\ \E k \in 2..(Len(type) - 1) :
       /\ type[k] = "["
       /\ \A j \in (k + 1)..(Len(type) - 1) :
            type[j] \in {"0","1","2","3","4","5","6","7","8","9"}

\* The outermost dimension of an array type is its last bracket group:
\* <<"number", n>> for [n], <<"null">> for [].
OutermostDimension(type) ==
  LET open == CHOOSE k \in 2..(Len(type) - 1) :
                /\ type[k] = "["
                /\ \A j \in (k + 1)..Len(type) : type[j] # "["
      digits == SubSeq(type, open + 1, Len(type) - 1)
  IN  IF digits = <<>> THEN NullV ELSE NumV(DigitsValue(digits, 10, 0))

LengthErrors == {"Array must have exactly " \o ToString(n) \o " elements" : n \in 0..9}

\* C13: for an array type whose outermost dimension is fixed-size n, a JSON
\* array of another length is refused with the error stating n, whatever its
\* elements are; for a dynamic outermost dimension no length is refused.
C13_OutermostLength ==
  ( /\ Returned("validateParameterType")
    /\ EndsWithDimension(call[3])
    /\ ~IsThrow(JSONparse(call[2][2]))
    /\ IsArray(JSONparse(call[2][2])[2]) ) =>
      IF OutermostDimension(call[3]) = NullV
        THEN ret[1] = "ok" /\ ret[2].error \notin LengthErrors
        ELSE Len(JSONparse(call[2][2])[2][2]) # OutermostDimension(call[3])[2] =>
               ret = Ok(Invalid("Array must have exactly "
                                \o ToString(OutermostDimension(call[3])[2]) \o " elements"))

\* The call validated a JSON object text against the type tuple with a
\* component list that is not empty.
TupleOfObject ==
  /\ Returned("validateParameterType")
  /\ call[3] = T_tuple
  /\ call[4] # NoComponents
  /\ call[4][2] # <<>>
  /\ ~IsThrow(JSONparse(call[2][2]))
  /\ JSONparse(call[2][2])[2][1] = "object"

\* The members of the object of the call, and the declared components.
ObjectOfCall == JSONparse(call[2][2])[2][2]
ComponentsOfCall == call[4][2]

\* The declared components the object of the call lacks.
MissingFields ==
  {i \in 1..Len(ComponentsOfCall) : ObjGet(ObjectOfCall, ComponentsOfCall[i].name) = Undefined}

\* What validating the field of the i-th declared component gives.
FieldOutcome(i) ==
  validateParameterType(TextOfMember(ObjGet(ObjectOfCall, ComponentsOfCall[i].name))[2],
                        ComponentsOfCall[i].type, ComponentsOfCall[i].components)[2]

\* The declared components whose field is missing or fails validation.
FailingFields ==
  MissingFields \cup
    {i \in 1..Len(ComponentsOfCall) \ MissingFields : ~FieldOutcome(i).isValid}

\* C14 as stated: an object that lacks declared components is refused with
\* "Missing required field: <name>" for the first missing component in
\* declaration order, whatever the other fields contain.
C14_FirstMissWins ==
  (TupleOfObject /\ MissingFields # {}) =>
     ret = Ok(Invalid("Missing required field: "
            \o Str(ComponentsOfCall[CHOOSE i \in MissingFields :
                                      \A j \in MissingFields : i <= j].name)))

\* C14 as amended: an object that lacks declared components is refused; the
\* components are examined in declaration order, each for presence and then
\* for validity, and the first failure is reported: "Missing required field:
\* <name>" when the first failing component is a missing one, the error of
\* the invalid field when a component declared before it fails validation.
C14_FirstFailureWins ==
  (TupleOfObject /\ MissingFields # {}) =>
     LET first == CHOOSE i \in FailingFields : \A j \in FailingFields : i <= j IN
     IF first \in MissingFields
       THEN ret = Ok(Invalid("Missing required field: " \o Str(ComponentsOfCall[first].name)))
       ELSE ret = Ok(Invalid("Invalid field \"" \o Str(ComponentsOfCall[first].name) \o "\": "
                             \o FieldOutcome(first).error))

\* An object with an invalid first field and no second field was refused for
\* the invalid field.
C14_Witness ==
  /\ TupleOfObject
  /\ call[4] = TransferComponents
  /\ ObjectOfCall = << <<N_to, StrV(AddrShort)>> >>
  /\ ret[2].error =
       "Invalid field \"to\": Invalid Ethereum address. Must be 40 hex characters starting with 0x"

\* C15: a successful tuple validation yields a mapping whose keys are exactly
\* the declared component names, in declaration order whatever the key order
\* of the input object (keys that are no declared component are absent),
\* each mapped to the normalized value of validating that field against its
\* component's type and sub-components.
C15_DeclarationOrder ==
  (TupleOfObject /\ ret[1] = "ok" /\ ret[2].isValid) =>
     ret[2].normalizedValue =
       ObjV([i \in 1..Len(ComponentsOfCall) |->
               <<ComponentsOfCall[i].name, FieldOutcome(i).normalizedValue>>])

\* An object written amount first, to second was accepted, and its mapping
\* has to first.
C15_Witness ==
  /\ TupleOfObject
  /\ call[4] = TransferComponents
  /\ ObjectOfCall = << <<N_amount, StrV(<<"7">>)>>, <<N_to, StrV(AddrMixed)>> >>
  /\ ret = Ok(Valid(ObjV(<< <<N_to, StrV(toLowerCase(AddrMixed))>>, <<N_amount, BigV(7)>> >>)))

\* C16: without a component schema (absent or empty components) the type
\* tuple is refused with "Tuple components are required" for every value,
\* and a tuple array type is refused for every JSON array that is not empty.
C16_SchemaRequired ==
  (Returned("validateParameterType") /\ call[4] \in {NoComponents, Components(<<>>)}) =>
     /\ call[3] = T_tuple => ret = Ok(Invalid("Tuple components are required"))
     /\ ( /\ call[3] \in {T_tuple \o Dyn, T_tuple \o Fix(2)}
          /\ ~IsThrow(JSONparse(call[2][2]))
          /\ IsArray(JSONparse(call[2][2])[2])
          /\ JSONparse(call[2][2])[2][2] # <<>> ) => (ret[1] = "ok" /\ ~ret[2].isValid)

\* A well-formed object was refused for the empty component list.
C16_Witness ==
  /\ Returned("validateParameterType")
  /\ call[2] = StrV(Serialize(TransferObj(StrV(AddrLower), StrV(<<"1","0">>))))
  /\ call[3] = T_tuple
  /\ call[4] = Components(<<>>)
  /\ ret = Ok(Invalid("Tuple components are required"))

\* C17: validateParameterType refuses an undefined or null value with "Value
\* is required" for every type; the empty string is not absent: it goes to
\* the validator of the type, which accepts it for string and refuses it for
\* address, uintN, intN, bool and bytes.
C17_ValueRequired ==
  Returned("validateParameterType") =>
     /\ call[2] \in {Undefined, NullV} => ret = Ok(Invalid("Value is required"))
     /\ call[2] = StrV(<<>>) =>
          /\ ret[1] = "ok"
          /\ ret[2].error # "Value is required"
          /\ call[3] = T_string => ret = Ok(Valid(StrV(<<>>)))
          /\ call[3] = T_address => ret = Ok(Invalid("Address is required"))
          /\ call[3] \in {T_uint, TY_uint8, TY_uint256, T_int, TY_int8} =>
               ret = Ok(Invalid("Invalid number format (no spaces allowed)"))
          /\ call[3] = T_bool => ret = Ok(Invalid("Must be \"true\" or \"false\""))
          /\ call[3] \in {T_bytes, TY_bytes2} => ret = Ok(Invalid("Bytes value is required"))

\* A null value was refused for a type that accepts every text.
C17_Witness ==
  /\ Returned("validateParameterType")
  /\ call[2] = NullV
  /\ call[3] = T_string
  /\ ret = Ok(Invalid("Value is required"))

\* The call normalized a mapping, or the JSON text of one, against the type
\* tuple with a component list.
TupleNormalized ==
  /\ Returned("normalizeParameterValue")
  /\ call[3] = T_tuple
  /\ call[4] # NoComponents
  /\ \/ call[2][1] = "object"
     \/ /\ call[2][1] = "string"
        /\ ~IsThrow(JSONparse(call[2][2]))
        /\ JSONparse(call[2][2])[2][1] = "object"

\* The members of the mapping that was normalized.
MappingOfCall == IF call[2][1] = "object" THEN call[2][2] ELSE JSONparse(call[2][2])[2][2]

\* What normalizing the field of the i-th declared component gives.
FieldNormalized(i) ==
  normalizeParameterValue(TextOfMember(ObjGet(MappingOfCall, call[4][2][i].name))[2],
                          call[4][2][i].type, call[4][2][i].components)

\* C18: normalizeParameterValue turns a tuple value into the sequence of the
\* normalized fields, one per declared component, in declaration order
\* whatever the key order of the input; a missing field makes it throw.
C18_TupleToSequence ==
  TupleNormalized =>
    LET n == Len(call[4][2])
        missing == {i \in 1..n : ObjGet(MappingOfCall, call[4][2][i].name) = Undefined}
    IN  IF missing # {} THEN IsThrow(ret)
        ELSE IF \E i \in 1..n : IsThrow(FieldNormalized(i)) THEN IsThrow(ret)
        ELSE ret = Ok(ArrV([i \in 1..n |-> FieldNormalized(i)[2]]))

\* A mapping written amount first, to second became the sequence to, amount.
C18_Witness ==
  /\ TupleNormalized
  /\ call[4] = TransferComponents
  /\ MappingOfCall = << <<N_amount, StrV(<<"7">>)>>, <<N_to, StrV(AddrMixed)>> >>
  /\ ret = Ok(ArrV(<<StrV(toLowerCase(AddrMixed)), StrV(<<"7">>)>>))

\* The call normalized a literal that validateUint or validateInt had just
\* accepted for its integer type.
IntegerNormalized ==
  /\ Returned("normalizeParameterValue")
  /\ Len(prior) = 1
  /\ ~parseType(call[3]).isArray
  /\ IsIntegerType(call[3])

\* The decimal text of an integer as toString writes it: 0, or an optional
\* minus sign and digits that do not start with 0.
IsCanonicalDecimal(s) ==
  \/ s = <<"0">>
  \/ /\ IsDigitRun(s, {"0","1","2","3","4","5","6","7","8","9"})
     /\ s[1] # "0"
  \/ /\ Len(s) >= 2
     /\ s[1] = "-"
     /\ IsDigitRun(Tail(s), {"0","1","2","3","4","5","6","7","8","9"})
     /\ s[2] # "0"

\* C19 as stated: for an accepted integer literal normalizeParameterValue
\* returns the canonical decimal text of the integer.
C19_CanonicalText ==
  IntegerNormalized => ret = Ok(StrV(IntText(FirstRet[2].normalizedValue[2])))

\* C19 as amended: for an accepted integer literal normalizeParameterValue
\* returns the literal as it was written; the text denotes the validated
\* integer, and it is the canonical decimal text of that integer exactly
\* when the literal was written canonically.
C19_LiteralPassedThrough ==
  IntegerNormalized =>
     /\ ret = Ok(call[2])
     /\ BigInt(ret[2][2]) = Ok(FirstRet[2].normalizedValue[2])
     /\ (ret[2][2] = IntText(FirstRet[2].normalizedValue[2])) <=> IsCanonicalDecimal(call[2][2])

\* The literal 007 was accepted for uint8 and came back as 007.
C19_Witness ==
  /\ IntegerNormalized
  /\ call[3] = TY_uint8
  /\ FirstRet[2].normalizedValue = BigV(7)
  /\ ret = Ok(StrV(<<"0","0","7">>))

\* The input and the ABI a build call resolved its function in.
BuildCalled == Returned("buildAction") \/ Returned("buildActionFromPredefined")
InputOfBuild == call[2]
AbiOfBuild == IF call[1] = "buildAction" THEN call[2].abi ELSE call[3]
BuildSucceeded == BuildCalled /\ ret[1] = "ok" /\ ret[2][1] = "success"
ActionOfBuild == ret[2][2]
ResolvedFunction == findFunctionBySignature(InputOfBuild.functionSignature, AbiOfBuild)

\* C20: every Action of a successful buildAction carries the lowercased input
\* address, the canonical signature of the resolved function, which is the
\* requested signature, that function's name, the calldata the codec produced
\* for it, an abi field holding the resolved function descriptor alone, and
\* the caller's value unchanged.
C20_ActionFields ==
  BuildSucceeded =>
     /\ ResolvedFunction # Undefined
     /\ ActionOfBuild.contractAddress = toLowerCase(InputOfBuild.contractAddress)
     /\ \A i \in 1..Len(ActionOfBuild.contractAddress) :
          ActionOfBuild.contractAddress[i] \notin UpperSet
     /\ ActionOfBuild.functionSignature = getFunctionSignature(ResolvedFunction[2])
     /\ ActionOfBuild.functionSignature = InputOfBuild.functionSignature
     /\ ActionOfBuild.functionName = ResolvedFunction[2].name
     /\ Ok(ActionOfBuild.calldata) =
          encodeFunctionData(ResolvedFunction[2],
            prepareParametersForEncoding(InputOfBuild.parameters,
                                         ResolvedFunction[2].inputs, 1, <<>>)[2])
     /\ ActionOfBuild.abi = <<ResolvedFunction[2]>>
     /\ ActionOfBuild.value = InputOfBuild.value

\* buildAction succeeded on a mixed-case address, a value of 1 and an ABI of
\* several functions: the Action has the lowercase address, one descriptor
\* and the value 1.
C20_Witness ==
  /\ Returned("buildAction")
  /\ BuildSucceeded
  /\ InputOfBuild.contractAddress = AddrMixed
  /\ ActionOfBuild.contractAddress = <<"0","x">> \o Rep(<<"a","b">>, 20)
  /\ InputOfBuild.value = BigV(1)
  /\ ActionOfBuild.value = BigV(1)
  /\ Len(InputOfBuild.abi) > 1
  /\ Len(ActionOfBuild.abi) = 1
  /\ ActionOfBuild.functionName = N_transfer

\* The place in the signature where the type of input i starts.
RECURSIVE TypeOffset(_, _)
TypeOffset(fn, i) ==
  IF i = 1 THEN Len(fn.name) + 2
  ELSE TypeOffset(fn, i - 1) + Len(fn.inputs[i - 1].type) + 1

\* The indices of the functions of an ABI whose signature is the text asked for.
SignatureMatches(signature, abi) ==
  {i \in 1..Len(abi) : getFunctionSignature(abi[i]) = signature}

\* C21: getFunctionSignature(fn) is the function name, an opening parenthesis,
\* the declared type texts of the inputs in order with a single comma between
\* two of them and no space, and a closing parenthesis; a tuple input gives
\* the word tuple with its brackets. findFunctionBySignature returns a
\* function only when that text equals the requested signature, the first
\* such function of the ABI: overloads are told apart by the whole signature,
\* and a name alone or a signature spaced otherwise resolves to nothing.
C21_SignatureKey ==
  /\ Returned("getFunctionSignature") =>
       /\ startsWith(ret, call[2].name \o <<"(">>)
       /\ ret[Len(ret)] = ")"
       /\ Len(ret) = TypeOffset(call[2], Len(call[2].inputs) + 1)
                       - (IF call[2].inputs = <<>> THEN 0 ELSE 1)
       /\ \A i \in 1..Len(call[2].inputs) :
            /\ SubSeq(ret, TypeOffset(call[2], i),
                      TypeOffset(call[2], i) + Len(call[2].inputs[i].type) - 1)
                 = call[2].inputs[i].type
            /\ ret[TypeOffset(call[2], i) + Len(call[2].inputs[i].type)]
                 = (IF i < Len(call[2].inputs) THEN "," ELSE ")")
       /\ \A k \in 1..Len(ret) : ret[k] # " "
       /\ call[2] = F_setPair => ret = <<"s","e","t","P","a","i","r","(">> \o T_tuple \o <<")">>
       /\ call[2] = F_setPairs =>
            ret = <<"s","e","t","P","a","i","r","s","(">> \o T_tuple \o <<"[","]",",">>
                    \o T_bool \o <<")">>
  /\ Returned("findFunctionBySignature") =>
       /\ (ret = Undefined) <=> (SignatureMatches(call[2], call[3]) = {})
       /\ ret # Undefined =>
            \E i \in SignatureMatches(call[2], call[3]) :
               /\ ret = <<"function", call[3][i]>>
               /\ \A j \in SignatureMatches(call[2], call[3]) : i <= j
       /\ (\A k \in 1..Len(call[2]) : call[2][k] # "(") => ret = Undefined
       /\ (\E k \in 1..Len(call[2]) : call[2][k] = " ") => ret = Undefined
       /\ (call[2] = getFunctionSignature(F_transferTo) /\ call[3] # <<>>) =>
            ret = <<"function", F_transferTo>>
       /\ (call[2] = getFunctionSignature(F_transfer) /\ call[3] \in {FullAbi, OverloadAbi}) =>
            ret = <<"function", F_transfer>>

\* Of the two functions named transfer the one-input overload was found by
\* its signature, in an ABI that lists the two-input overload first.
C21_Witness ==
  /\ Returned("findFunctionBySignature")
  /\ call[2] = N_transfer \o <<"(">> \o TY_address \o <<")">>
  /\ call[3] = FullAbi
  /\ ret = <<"function", F_transferTo>>

\* The ABI a decode call looked the calldata up in, and the function of it
\* whose selector is the selector of the calldata.
DecodeCalled == Returned("decodeCalldata") \/ Returned("tryDecodeCalldata")
AbiOfDecode ==
  IF call[1] = "decodeCalldata" THEN call[3] ELSE combineAbis(call[3], 1, 1, <<>>)
SelectedIndices ==
  {i \in 1..Len(AbiOfDecode) :
     IsFragment(AbiOfDecode[i]) /\ FragmentFormat(AbiOfDecode[i]) = call[2][2]}
SelectedFunction == AbiOfDecode[CHOOSE i \in SelectedIndices : \A j \in SelectedIndices : i <= j]
HasOverloads(abi) ==
  \E i, j \in 1..Len(abi) :
     abi[i].name = abi[j].name /\ getFunctionSignature(abi[i]) # getFunctionSignature(abi[j])

\* C27: decodeCalldata on an ABI with overloads reports the signature, the
\* parameter names and the parameter types of the function whose selector
\* matches the calldata, never those of another function of the same name.
C27_SelectedOverload ==
  (DecodeCalled /\ HasOverloads(AbiOfDecode) /\ ret[1] = "success") =>
     /\ SelectedIndices # {}
     /\ ret[2].functionSignature = getFunctionSignature(SelectedFunction)
     /\ ret[2].parameterTypes =
          [i \in 1..Len(SelectedFunction.inputs) |-> SelectedFunction.inputs[i].type]
     /\ [i \in 1..Len(ret[2].parameters) |-> ret[2].parameters[i][1]] =
          [i \in 1..Len(SelectedFunction.inputs) |-> SelectedFunction.inputs[i].name]

\* The encodeCalldata call whose calldata a decode call was given.
EncodeOfDecode == prior[1][1]
SuppliedText(value) == IF value[1] = "string" THEN value[2] ELSE Serialize(value)

\* A decoded parameter is the supplied one: an address up to letter case, any
\* other value as the same text.
SameParameter(supplied, decoded, type) ==
  IF type = T_address
    THEN decoded[1] = "string" /\ toLowerCase(decoded[2]) = toLowerCase(SuppliedText(supplied))
    ELSE decoded = StrV(SuppliedText(supplied))

\* C22: for every function of the ABI and every parameter map encodeCalldata
\* accepts, decodeCalldata of the produced calldata with the same ABI succeeds
\* and returns the same function name, the same function signature and, for
\* every declared input, a parameter equal to the supplied one.
C22_EncodeDecodeRoundTrip ==
  (Returned("decodeCalldata") /\ Len(prior) = 1 /\ call[3] = EncodeOfDecode[2]) =>
     /\ ret[1] = "success"
     /\ ret[2].functionName = findFunctionBySignature(EncodeOfDecode[3], call[3])[2].name
     /\ ret[2].functionSignature = EncodeOfDecode[3]
     /\ \A i \in 1..Len(findFunctionBySignature(EncodeOfDecode[3], call[3])[2].inputs) :
          SameParameter(
            ObjGet(EncodeOfDecode[4],
                   findFunctionBySignature(EncodeOfDecode[3], call[3])[2].inputs[i].name),
            ObjGet(ret[2].parameters,
                   findFunctionBySignature(EncodeOfDecode[3], call[3])[2].inputs[i].name),
            findFunctionBySignature(EncodeOfDecode[3], call[3])[2].inputs[i].type)

\* The calls of loadContractAbi that a step starts or brings to their end.
CacheKeys(builder) == {builder.abiCache[k][1] : k \in 1..Len(builder.abiCache)}
LoadStarts == Len(actionBuilder'.loads) = Len(actionBuilder.loads) + 1
StartedLoad == actionBuilder'.loads[Len(actionBuilder'.loads)]
LoadsSettling ==
  {i \in 1..Len(actionBuilder.loads) :
     actionBuilder.loads[i].state = "awaiting" /\ actionBuilder'.loads[i].state = "returned"}

\* C23: the cache of an ActionBuilder is keyed by the lowercased address and
\* loads in flight are not deduplicated. A loadContractAbi call that starts
\* while the cache has no entry for the lowercased address performs the load,
\* whatever other calls for that address are in flight; each load that
\* completes with success writes the cache, so that the entry is that of the
\* load completing last; a call that starts while the entry is there performs
\* no load and returns the entry.
C23_CacheNotDeduplicated ==
  [][ /\ \A key \in CacheKeys(actionBuilder') : key = toLowerCase(key)
      /\ LoadStarts =>
           /\ actionBuilder'.abiCache = actionBuilder.abiCache
           /\ IF toLowerCase(StartedLoad.address) \in CacheKeys(actionBuilder)
                THEN /\ ~StartedLoad.loaded
                     /\ StartedLoad.state = "returned"
                     /\ StartedLoad.result =
                          Success(MapGet(actionBuilder.abiCache,
                                         toLowerCase(StartedLoad.address)))
                ELSE /\ StartedLoad.loaded
                     /\ StartedLoad.state = "awaiting"
      /\ \A i \in LoadsSettling :
           IF actionBuilder'.loads[i].result[1] = "success"
             THEN /\ MapGet(actionBuilder'.abiCache,
                            toLowerCase(actionBuilder.loads[i].address))
                       = actionBuilder'.loads[i].result[2]
                  /\ \A key \in CacheKeys(actionBuilder) \cup CacheKeys(actionBuilder') :
                       key # toLowerCase(actionBuilder.loads[i].address) =>
                         MapGet(actionBuilder'.abiCache, key)
                           = MapGet(actionBuilder.abiCache, key)
             ELSE actionBuilder'.abiCache = actionBuilder.abiCache
    ]_vars

\* Two calls for one address in two letter cases both performed the load and
\* completed with different results, the cache holds one of the two under the
\* lowercased address, and a third call returned that entry without a load.
C23_Witness ==
  /\ Len(actionBuilder.loads) = 3
  /\ actionBuilder.loads[1].address = AddrMixed
  /\ actionBuilder.loads[2].address = toLowerCase(AddrMixed)
  /\ actionBuilder.loads[1].loaded /\ actionBuilder.loads[2].loaded
  /\ actionBuilder.loads[1].result[1] = "success"
  /\ actionBuilder.loads[2].result[1] = "success"
  /\ actionBuilder.loads[1].result # actionBuilder.loads[2].result
  /\ MapGet(actionBuilder.abiCache, toLowerCase(AddrMixed)) = actionBuilder.loads[1].result[2]
  /\ actionBuilder.loads[3].address = AddrMixed
  /\ ~actionBuilder.loads[3].loaded
  /\ actionBuilder.loads[3].result = actionBuilder.loads[1].result

\* The text of an array type T[d0][d1]...[dn], read from the type text alone:
\* T, d0 (undefined when the first brackets are empty), the number of bracket
\* groups, and the element type T[d1]...[dn].
RECURSIVE IsDimensionRun(_)
IsDimensionRun(s) ==
  \/ s = <<>>
  \/ /\ s[1] = "["
     /\ \E j \in 2..Len(s) :
          /\ s[j] = "]"
          /\ \A k \in 2..(j - 1) : IsDigit(s[k])
          /\ IsDimensionRun(SubSeq(s, j + 1, Len(s)))
FirstOpen(type) == CHOOSE k \in 1..Len(type) : type[k] = "[" /\ \A j \in 1..(k - 1) : type[j] # "["
FirstClose(type) == CHOOSE k \in 1..Len(type) : type[k] = "]" /\ \A j \in 1..(k - 1) : type[j] # "]"
IsArrayTypeText(type) ==
  /\ \E k \in 2..Len(type) : type[k] = "["
  /\ type[1] # "["
  /\ IsDimensionRun(SubSeq(type, FirstOpen(type), Len(type)))
BaseTypeText(type) == SubSeq(type, 1, FirstOpen(type) - 1)
FirstDimension(type) ==
  IF FirstClose(type) = FirstOpen(type) + 1 THEN Undefined
  ELSE NumV(DigitsValue(SubSeq(type, FirstOpen(type) + 1, FirstClose(type) - 1), 10, 0))
DimensionCount(type) == Cardinality({k \in 1..Len(type) : type[k] = "["})
ElementTypeText(type) ==
  BaseTypeText(type) \o SubSeq(type, FirstClose(type) + 1, Len(type))

\* The array a validated or normalized value stands for.
ArrayOfValue(value) == IF value[1] = "string" THEN JSONparse(value[2]) ELSE Ok(value)
IsArrayValue(value) == ~IsThrow(ArrayOfValue(value)) /\ IsArray(ArrayOfValue(value)[2])
ItemsOfValue(value) == ArrayOfValue(value)[2][2]

\* An element passes validateParameterType for the element type.
ElementAccepted(item, elementType, components) ==
  LET Accepted(r) == r[1] = "ok" /\ r[2].isValid
      Text(t) == ~IsThrow(t) /\ Accepted(validateParameterType(t[2], elementType, components))
  IN  Text(TextOfMember(item))

\* The levels the recursion of the three operations goes through for a type,
\* and the type it ends at.
RECURSIVE InnerLevels(_)
InnerLevels(type) ==
  IF parseType(type).isArray THEN 1 + InnerLevels(innerTypeOf(parseType(type))) ELSE 0
RECURSIVE InnermostType(_)
InnermostType(type) ==
  IF parseType(type).isArray THEN InnermostType(innerTypeOf(parseType(type))) ELSE type

\* C24: for an array type T[d0][d1]...[dn], validateParameterType accepts an
\* array exactly when its length is d0 (if d0 is fixed) and every element is
\* accepted for the type T[d1]...[dn]; normalizeParameterValue and
\* denormalizeParameterValue map the elements with that same element type;
\* and the recursion reaches the base type T after exactly n+1 levels.
C24_SynthesizedElementType ==
  /\ ( /\ Returned("validateParameterType")
       /\ IsArrayTypeText(call[3])
       /\ IsArrayValue(call[2]) ) =>
         /\ ret[1] = "ok"
         /\ ret[2].isValid <=>
              /\ FirstDimension(call[3]) # Undefined =>
                   Len(ItemsOfValue(call[2])) = FirstDimension(call[3])[2]
              /\ \A i \in 1..Len(ItemsOfValue(call[2])) :
                   ElementAccepted(ItemsOfValue(call[2])[i], ElementTypeText(call[3]), call[4])
  /\ ( /\ Returned("normalizeParameterValue")
       /\ Len(prior) = 1
       /\ IsArrayTypeText(call[3]) ) =>
         /\ ret[1] = "ok"
         /\ ret[2] = ArrV([i \in 1..Len(ItemsOfValue(call[2])) |->
                       normalizeParameterValue(TextOfMember(ItemsOfValue(call[2])[i])[2],
                                               ElementTypeText(call[3]), call[4])[2]])
  /\ ( /\ Returned("denormalizeParameterValue")
       /\ IsArrayTypeText(call[3])
       /\ IsArray(call[2]) ) =>
         ret = Serialize(ArrV([i \in 1..Len(call[2][2]) |->
                 StrV(denormalizeParameterValue(call[2][2][i], ElementTypeText(call[3]),
                                                call[4]))]))
  /\ ( /\ Returned("parseType")
       /\ IsArrayTypeText(call[2]) ) =>
         /\ InnerLevels(call[2]) = DimensionCount(call[2])
         /\ InnermostType(call[2]) = BaseTypeText(call[2])

\* An array of two arrays of three numbers was accepted for uint8[2][3]: two
\* is the first dimension, and every element was accepted for uint8[3].
C24_Witness ==
  /\ Returned("validateParameterType")
  /\ call[3] = TY_uint8 \o Fix(2) \o Fix(3)
  /\ ret[1] = "ok"
  /\ ret[2].isValid
  /\ Len(ItemsOfValue(call[2])) = 2
  /\ \A i \in 1..2 :
       /\ Len(ItemsOfValue(call[2])[i][2]) = 3
       /\ ElementAccepted(ItemsOfValue(call[2])[i], TY_uint8 \o Fix(3), call[4])

\* C25: validation and normalization agree on booleans: a text accepted for
\* the type bool is normalized to the boolean that its validation returned as
\* normalizedValue.
C25_BoolAgreement ==
  ( /\ Returned("normalizeParameterValue")
    /\ Len(prior) = 1
    /\ prior[1][1][1] = "validateParameterType"
    /\ call[3] = T_bool ) =>
      ret = Ok(prior[1][2][2].normalizedValue)

\* C26: buildAction and buildActionFromPredefined return a Result for every
\* input, whatever ParameterValue the parameter map holds, and never throw.
C26_BuildNeverThrows ==
  (Returned("buildAction") \/ Returned("buildActionFromPredefined")) =>
    /\ ret[1] = "ok"
    /\ ret[2][1] \in {"success", "failure"}

\* C28: every value validateBytes accepts denotes a whole number of bytes: it
\* has an even number of hex digits after the 0x prefix, with a fixed length
\* and without one.
C28_WholeBytes ==
  (Returned("validateBytes") /\ ret.isValid) =>
    /\ IsHexText(call[2])
    /\ (Len(call[2]) - 2) % 2 = 0

\* The load started last, the loads in flight, and the response of load i
\* arriving in this step.
LatestLoad == Len(abiLoader.loads)
InFlight(i) == abiLoader.loads[i].state = "awaiting"
Responds(i) ==
  /\ i \in 1..Len(abiLoader.loads)
  /\ InFlight(i)
  /\ Len(abiLoader'.loads) = Len(abiLoader.loads)
  /\ abiLoader'.loads[i].state = "settled"
ReflectsResult(loader, result) ==
  IF result[1] = "success"
    THEN loader.abiResult = <<"result", result[2]>> /\ loader.error = Null
    ELSE loader.abiResult = Null /\ loader.error = <<result[2], result[3]>>

\* C29: useAbiLoader discards superseded loads: the response of a load that
\* is no longer the one started last never changes abiResult or error; the
\* response of the load started last, unless it was cancelled, is what
\* abiResult and error show; and isLoading is true as long as the load
\* started last is in flight and not cancelled.
C29_SupersededDiscarded ==
  /\ [][ \A i \in 1..Len(abiLoader.loads) :
           Responds(i) =>
             /\ i < LatestLoad =>
                  /\ abiLoader'.abiResult = abiLoader.abiResult
                  /\ abiLoader'.error = abiLoader.error
             /\ (i = LatestLoad /\ ~abiLoader.loads[i].aborted) =>
                  \E result \in loadAbi(abiLoader.loads[i].address) :
                    ReflectsResult(abiLoader', result) ]_vars
  /\ []( ( /\ LatestLoad > 0
           /\ InFlight(LatestLoad)
           /\ ~abiLoader.loads[LatestLoad].aborted ) => abiLoader.isLoading )

\* C30: whenever isValid and isComplete are both true, the current value of
\* every declared input of the selected function passes validateParameterType
\* against its type and components.
C30_ValidatedValues ==
  ( /\ paramValidation.mounted
    /\ isValid(paramValidation)
    /\ isComplete(paramValidation) ) =>
      \A i \in 1..Len(selectedFunction(paramValidation)[2].inputs) :
        ValidationOf(MapGet(paramValidation.parameterStates,
                            selectedFunction(paramValidation)[2].inputs[i].name).value,
                     selectedFunction(paramValidation)[2].inputs[i]).isValid

====
